---- MODULE Spec2Model ----
(***************************************************************************)
(* Model of the beat-synchronised transform animation of grav-lift:        *)
(*   src/src/entities/MovingPlatform.js  (the animator state machine)      *)
(*   src/src/utils/BezierEasing.js       (the cubic bezier easing curves)  *)
(*   src/src/entities/Platform.js        (the base class constructor)      *)
(*                                                                         *)
(* Numbers.  JavaScript numbers are IEEE-754 doubles and are modelled as   *)
(* such: a number is a record [s, m, e] standing for s * M * 2^e with the  *)
(* sign s in {1, -1} and the 53-bit mantissa M in [2^52, 2^53), kept as    *)
(* two limbs of 28 bits m = <<high, low>> (TLC integers have 32 bits); a   *)
(* zero has m = <<0, 0>> and e = 0.  Sums, differences, products and       *)
(* quotients are computed exactly and rounded to the nearest double, ties  *)
(* to the even mantissa, as the processor does.  The exponent is not       *)
(* bounded: the numbers of the model stay far from overflow and from the   *)
(* subnormal range.  NaN is the record with s = 0.                         *)
(*  - Pose values, easing control points, eased values, times (delta,      *)
(*    duration, elapsedTime, secondsPerBeat, in seconds) and               *)
(*    transitionProgress are such doubles.                                 *)
(*  - A color is the triple of its channels r, g, b in 0..255; a channel   *)
(*    c stands for the float c / 255.  A color index is an integer.        *)
(*  - A JavaScript value that may be undefined or null is tagged:          *)
(*    Undefined, Null or Num(n).                                           *)
(*                                                                         *)
(* Objects.  Where two platforms are built from one options object, the    *)
(* objects they can reach are kept in a heap: the objects of the options   *)
(* (position, colorPalette, states), which the constructor keeps by        *)
(* reference, and per platform the instance and its mesh.  A call reads    *)
(* the fields of its platform through these references and writes them     *)
(* back where they live.                                                   *)
(***************************************************************************)
EXTENDS Integers, Sequences, FiniteSets, TLC

VARIABLES
  options,    \* the argument of `new MovingPlatform(options)`
  platform,   \* the fields of the MovingPlatform instance (NoPlatform before construction);
              \* of a pair, the fields of the first instance as read through its references
  pc,         \* the last call made: "start" (none yet), "constructed" or "updated"
  thrown,     \* TRUE when the last call threw an exception
  other,      \* a second MovingPlatform built from the same options, as read through its
              \* references (NoPlatform when unused)
  heap,       \* of a pair: the objects of the options, the two instances and their meshes,
              \* by address (NoPlatform when unused)
  calls,      \* per platform of a pair: the number of update calls made, whether one of
              \* them dropped time that went beyond the end of a transition, and the values
              \* of delta of the calls in order
  probe       \* an evaluation of an easing taken alone, or the frames of a run with a
              \* constant delta (NoProbe when unused)

vars == <<options, platform, pc, thrown, other, heap, calls, probe>>

-----------------------------------------------------------------------------
(* Bounds of the model *)

\* update(delta) is only called while elapsedTime + delta <= MaxElapsed / 1000 seconds
MaxElapsed == 2000
\* longest list of transition definitions in options.states.transitions
MaxTransitions == 2

-----------------------------------------------------------------------------
(* Whole numbers of up to 112 binary digits: <<w3, w2, w1, w0>> stands for
   w3 * Limb^3 + w2 * Limb^2 + w1 * Limb + w0, every limb in 0..Limb-1.  They
   hold the exact sums, products and remainders of mantissas before rounding. *)

Limb == 2^28
HalfLimb == 2^14

\* the wide number c3 * Limb^3 + c2 * Limb^2 + c1 * Limb + c0 for limbs that
\* are out of range (the total is not negative)
WideCarry(c3, c2, c1, c0) ==
  LET k1 == c1 + c0 \div Limb
      k2 == c2 + k1 \div Limb
  IN  <<c3 + k2 \div Limb, k2 % Limb, k1 % Limb, c0 % Limb>>

WideAdd(x, y) == WideCarry(x[1] + y[1], x[2] + y[2], x[3] + y[3], x[4] + y[4])

\* x - y for x >= y
WideSub(x, y) == WideCarry(x[1] - y[1], x[2] - y[2], x[3] - y[3], x[4] - y[4])

WideLess(x, y) ==
  IF x[1] # y[1] THEN x[1] < y[1]
  ELSE IF x[2] # y[2] THEN x[2] < y[2]
  ELSE IF x[3] # y[3] THEN x[3] < y[3]
  ELSE x[4] < y[4]

\* x * 2^k for k in 0..27, x below 2^(112 - k)
WideShiftLeftBits(x, k) ==
  LET u == 2^(28 - k)
      d == 2^k
  IN  <<(x[1] % u) * d + x[2] \div u, (x[2] % u) * d + x[3] \div u,
        (x[3] % u) * d + x[4] \div u, (x[4] % u) * d>>

\* y * Limb^q for q in 0..2, y below Limb^(4 - q)
WideShiftLeftLimbs(y, q) ==
  IF q = 0 THEN y
  ELSE IF q = 1 THEN <<y[2], y[3], y[4], 0>>
  ELSE <<y[3], y[4], 0, 0>>

\* x * 2^n for n in 0..83, x below 2^(112 - n)
WideShiftLeft(x, n) == WideShiftLeftLimbs(WideShiftLeftBits(x, n % 28), n \div 28)

\* floor(x / 2^k) for k in 0..27
WideShiftRightBits(x, k) ==
  LET u == 2^(28 - k)
      d == 2^k
  IN  <<x[1] \div d, (x[1] % d) * u + x[2] \div d,
        (x[2] % d) * u + x[3] \div d, (x[3] % d) * u + x[4] \div d>>

\* floor(x / Limb^q) for q in 0..3
WideShiftRightLimbs(x, q) ==
  IF q = 0 THEN x
  ELSE IF q = 1 THEN <<0, x[1], x[2], x[3]>>
  ELSE IF q = 2 THEN <<0, 0, x[1], x[2]>>
  ELSE <<0, 0, 0, x[1]>>

\* floor(x / 2^n) for n in 0..111
WideShiftRight(x, n) == WideShiftRightBits(WideShiftRightLimbs(x, n \div 28), n % 28)

\* x is a multiple of 2^k * Limb^q, for k in 0..27 and q in 0..3
WideLowZeroAt(x, q, d) ==
  IF q = 0 THEN x[4] % d = 0
  ELSE IF q = 1 THEN x[4] = 0 /\ x[3] % d = 0
  ELSE IF q = 2 THEN x[4] = 0 /\ x[3] = 0 /\ x[2] % d = 0
  ELSE x[4] = 0 /\ x[3] = 0 /\ x[2] = 0 /\ x[1] % d = 0

\* the number of binary digits of n >= 0
RECURSIVE Bits(_)
Bits(n) ==
  IF n = 0 THEN 0
  ELSE IF n >= 2^14 THEN 14 + Bits(n \div 2^14)
  ELSE IF n >= 2^7 THEN 7 + Bits(n \div 2^7)
  ELSE 1 + Bits(n \div 2)

\* the number of binary digits of the wide number x
WideBits(x) ==
  IF x[1] # 0 THEN 84 + Bits(x[1])
  ELSE IF x[2] # 0 THEN 56 + Bits(x[2])
  ELSE IF x[3] # 0 THEN 28 + Bits(x[3])
  ELSE Bits(x[4])

-----------------------------------------------------------------------------
(* JavaScript numbers: IEEE-754 doubles, round to nearest, ties to even *)

Double(s, m, e) == [s |-> s, m |-> m, e |-> e]

\* 0 and -0
DZero == Double(1, <<0, 0>>, 0)

\* NaN: the number with no sign, which every operation passes on and every
\* comparison rejects
NaN == Double(0, <<0, 0>>, 0)

IsNaN(a) == a.s = 0

IsZero(a) == a.m = <<0, 0>> /\ ~IsNaN(a)

\* the double nearest to s * (hi * Limb + lo + f) * 2^e for a mantissa
\* <<hi, lo>> and a fraction f in [0, 1) cut off below it: guard is the first
\* binary digit of f, sticky tells that a later digit is not 0
RoundMantissa(s, hi, lo, e, guard, sticky) ==
  IF guard = 0 \/ (~sticky /\ lo % 2 = 0) THEN Double(s, <<hi, lo>>, e)
  ELSE IF lo + 1 < Limb THEN Double(s, <<hi, lo + 1>>, e)
  ELSE IF hi + 1 < 2^25 THEN Double(s, <<hi + 1, 0>>, e)
  ELSE Double(s, <<2^24, 0>>, e + 1)

\* the double nearest to s * (q / 2 + f) * 2^e for a wide number q of 54
\* binary digits and a fraction f in [0, 1/2) that is not 0 when sticky
RoundGuarded(s, q, e, sticky) ==
  RoundMantissa(s, q[3] \div 2, (q[3] % 2) * 2^27 + q[4] \div 2, e, q[4] % 2, sticky)

\* the double nearest to s * w * 2^e, for a wide number w of n > 0 binary digits
RoundBits(s, w, e, n) ==
  IF n <= 53 THEN Double(s, SubSeq(WideShiftLeft(w, 53 - n), 3, 4), e - (53 - n))
  ELSE RoundGuarded(s, WideShiftRight(w, n - 54), e + (n - 53), 
                    ~WideLowZeroAt(w, (n - 54) \div 28, 2^((n - 54) % 28)))

\* the double nearest to s * w * 2^e, for a wide number w # 0
RoundToDouble(s, w, e) == RoundBits(s, w, e, WideBits(w))

\* the double nearest to s * w * 2^e for a wide number w of 53 + 28 + k binary
\* digits, k in 1..27
RoundWideTop(s, w, e, k) ==
  LET d == 2^k
      u == 2^(28 - k)
  IN  RoundMantissa(s, w[1] * u + w[2] \div d, (w[2] % d) * u + w[3] \div d,
                    e + 28 + k, (w[3] \div (d \div 2)) % 2,
                    w[3] % (d \div 2) # 0 \/ w[4] # 0)

\* -a
DNeg(a) == [a EXCEPT !.s = -a.s]

MantissaLess(a, b) == a.m[1] < b.m[1] \/ (a.m[1] = b.m[1] /\ a.m[2] < b.m[2])

\* |a| < |b|
MagnitudeLess(a, b) ==
  IF IsZero(b) THEN FALSE
  ELSE IF IsZero(a) THEN TRUE
  ELSE a.e < b.e \/ (a.e = b.e /\ MantissaLess(a, b))

\* the mantissa of a times 2^54, as a wide number
WideMantissa(a) ==
  <<a.m[1] \div 4, (a.m[1] % 4) * 2^26 + a.m[2] \div 4, (a.m[2] % 4) * 2^26, 0>>

\* the double nearest to s * w * 2^e for an exact sum w of two mantissas
\* times 2^54, or an exact difference, which may be 0 or have few digits
RoundSum(s, w, e) ==
  IF w[1] >= 2^20
  THEN RoundWideTop(s, w, e, IF w[1] >= 2^23 THEN 27
                             ELSE IF w[1] >= 2^22 THEN 26
                             ELSE IF w[1] >= 2^21 THEN 25 ELSE 24)
  ELSE IF w = <<0, 0, 0, 0>> THEN DZero
  ELSE RoundToDouble(s, w, e)

\* hi + lo for |hi| >= |lo| > 0: the exact sum in units of 2^(hi.e - 54),
\* rounded; an operand more than 2^54 times smaller does not change the other
AddOrdered(hi, lo) ==
  IF hi.e - lo.e >= 55 THEN hi
  ELSE RoundSum(hi.s,
                IF hi.s = lo.s
                THEN WideAdd(WideMantissa(hi), WideShiftRight(WideMantissa(lo), hi.e - lo.e))
                ELSE WideSub(WideMantissa(hi), WideShiftRight(WideMantissa(lo), hi.e - lo.e)),
                hi.e - 54)

\* a + b
DAdd(a, b) ==
  IF IsNaN(a) \/ IsNaN(b) THEN NaN
  ELSE IF IsZero(a)
  THEN IF IsZero(b) THEN (IF a.s = -1 /\ b.s = -1 THEN Double(-1, <<0, 0>>, 0) ELSE DZero) ELSE b
  ELSE IF IsZero(b) THEN a
  ELSE IF MagnitudeLess(a, b) THEN AddOrdered(b, a)
  ELSE AddOrdered(a, b)

\* a - b
DSub(a, b) == DAdd(a, DNeg(b))

\* the exact product of the mantissas of a and b, from their halves of 14 bits
WideProduct(a, b) ==
  LET a3 == a.m[1] \div HalfLimb
      a2 == a.m[1] % HalfLimb
      a1 == a.m[2] \div HalfLimb
      a0 == a.m[2] % HalfLimb
      b3 == b.m[1] \div HalfLimb
      b2 == b.m[1] % HalfLimb
      b1 == b.m[2] \div HalfLimb
      b0 == b.m[2] % HalfLimb
      c0 == a0 * b0
      c1 == a1 * b0 + a0 * b1
      c2 == a2 * b0 + a1 * b1 + a0 * b2
      c3 == a3 * b0 + a2 * b1 + a1 * b2 + a0 * b3
      c4 == a3 * b1 + a2 * b2 + a1 * b3
      c5 == a3 * b2 + a2 * b3
      c6 == a3 * b3
  IN  WideCarry(c5 \div HalfLimb + c6,
                c3 \div HalfLimb + c4 + (c5 % HalfLimb) * HalfLimb,
                c1 \div HalfLimb + c2 + (c3 % HalfLimb) * HalfLimb,
                c0 + (c1 % HalfLimb) * HalfLimb)

\* the double nearest to s * w * 2^e for a product w of two mantissas
RoundProduct(s, w, e) == RoundWideTop(s, w, e, IF w[1] >= 2^21 THEN 25 ELSE 24)

\* a * b
DMul(a, b) ==
  IF IsNaN(a) \/ IsNaN(b) THEN NaN
  ELSE IF IsZero(a) \/ IsZero(b) THEN Double(a.s * b.s, <<0, 0>>, 0)
  ELSE RoundProduct(a.s * b.s, WideProduct(a, b), a.e + b.e)

\* r * 2^14 - q * d as a wide number, for mantissas r and d as <<high, low>>
\* and a digit q that is not too large
StepRest(r, d, q) ==
  LET d3 == d[1] \div HalfLimb
      d2 == d[1] % HalfLimb
      d1 == d[2] \div HalfLimb
      d0 == d[2] % HalfLimb
      p1 == q * d1
      p3 == q * d3
  IN  WideCarry(0,
                r[1] \div HalfLimb - p3 \div HalfLimb,
                r[2] \div HalfLimb + (r[1] % HalfLimb) * HalfLimb
                  - (p1 \div HalfLimb + q * d2 + (p3 % HalfLimb) * HalfLimb),
                (r[2] % HalfLimb) * HalfLimb - (q * d0 + (p1 % HalfLimb) * HalfLimb))

\* the digit q and the rest corrected upwards until the rest is below dw, which
\* takes at most 3 corrections: dw2 is 2 * dw and dw3 is 3 * dw
StepCorrect(q, rest, dw, dw2, dw3) ==
  IF WideLess(rest, dw) THEN [digit |-> q, r |-> <<rest[3], rest[4]>>]
  ELSE IF WideLess(rest, dw2)
  THEN [digit |-> q + 1, r |-> SubSeq(WideSub(rest, dw), 3, 4)]
  ELSE IF WideLess(rest, dw3)
  THEN [digit |-> q + 2, r |-> SubSeq(WideSub(rest, dw2), 3, 4)]
  ELSE [digit |-> q + 3, r |-> SubSeq(WideSub(rest, dw3), 3, 4)]

\* the step of DivideStep for the estimate q of the digit and the divisor as
\* the wide number dw
StepFrom(r, d, q, dw) ==
  StepCorrect(q, StepRest(r, d, q), dw, WideAdd(dw, dw), WideAdd(WideAdd(dw, dw), dw))

\* one step of the long division by the mantissa d, in base 2^14: for r < d,
\* the digit floor(r * 2^14 / d) and the remainder, r and d as <<high, low>>;
\* the digit is estimated from the leading binary digits and corrected upwards
DivideStep(r, d) ==
  StepFrom(r, d, (r[1] * 16 + r[2] \div 2^24) \div (d[1] \div 2^10 + 1),
           <<0, 0, d[1], d[2]>>)

\* n more steps of the long division of r by d after the digits found
RECURSIVE LongDivision(_, _, _, _)
RECURSIVE LongDivisionNext(_, _, _, _)
LongDivision(r, d, digits, n) ==
  IF n = 0 THEN [digits |-> digits, r |-> r]
  ELSE LongDivisionNext(DivideStep(r, d), d, digits, n)

LongDivisionNext(step, d, digits, n) ==
  LongDivision(step.r, d, Append(digits, step.digit), n - 1)

\* the double nearest to s * Q * 2^e for the quotient Q of two mantissas: g0
\* is its whole part, q holds 56 binary places in 4 digits and the remainder
RoundQuotient(s, g0, q, e) ==
  LET k == 3 + g0
      d == 2^k
      u == 2^(14 - k)
  IN  RoundMantissa(s,
                    g0 * 2^24 + q.digits[1] * u + q.digits[2] \div d,
                    (q.digits[2] % d) * (u * HalfLimb) + q.digits[3] * u
                      + q.digits[4] \div d,
                    e - 56 + k,
                    (q.digits[4] \div (d \div 2)) % 2,
                    q.digits[4] % (d \div 2) # 0 \/ q.r # <<0, 0>>)

\* a / b for b # 0: the quotient of the mantissas to 56 binary places and
\* whether the remainder is 0, rounded
DDiv(a, b) ==
  IF IsNaN(a) \/ IsNaN(b) THEN NaN
  ELSE IF IsZero(a) THEN Double(a.s * b.s, <<0, 0>>, 0)
  ELSE IF MantissaLess(a, b)
  THEN RoundQuotient(a.s * b.s, 0, LongDivision(a.m, b.m, <<>>, 4), a.e - b.e)
  ELSE RoundQuotient(a.s * b.s, 1,
                     LongDivision(<<a.m[1] - b.m[1] + (a.m[2] - b.m[2]) \div Limb,
                                    (a.m[2] - b.m[2]) % Limb>>,
                                  b.m, <<>>, 4), a.e - b.e)

\* a < b
DLess(a, b) ==
  IF IsNaN(a) \/ IsNaN(b) THEN FALSE
  ELSE IF IsZero(a) /\ IsZero(b) THEN FALSE
  ELSE IF IsZero(a) THEN b.s = 1
  ELSE IF IsZero(b) THEN a.s = -1
  ELSE IF a.s # b.s THEN a.s = -1
  ELSE IF a.s = 1 THEN MagnitudeLess(a, b) ELSE MagnitudeLess(b, a)

\* a === b: 0 and -0 are equal, NaN equals nothing
DEq(a, b) == (IsZero(a) /\ IsZero(b)) \/ (a = b /\ ~IsNaN(a))

\* a <= b
DLe(a, b) == DLess(a, b) \/ DEq(a, b)

\* the double of the whole number n, |n| < 2^31
DInt(n) ==
  IF n = 0 THEN DZero
  ELSE IF n < 0 THEN RoundToDouble(-1, <<0, 0, (-n) \div Limb, (-n) % Limb>>, 0)
  ELSE RoundToDouble(1, <<0, 0, n \div Limb, n % Limb>>, 0)

\* the double a decimal literal of n thousandths denotes: the one nearest to
\* n / 1000
Milli(n) == DDiv(DInt(n), DInt(1000))

DOne == DInt(1)
DTwo == DInt(2)
DThree == DInt(3)

-----------------------------------------------------------------------------
(* JavaScript values *)

Undefined == [t |-> "undefined"]
Null == [t |-> "null"]
Num(n) == [t |-> "number", v |-> n]

\* a ?? b
Coalesce(a, b) == IF a.t \in {"undefined", "null"} THEN b ELSE a.v

\* a || b for a number-or-undefined a and a number b (0, -0 and NaN are falsy)
OrElse(a, b) ==
  IF a.t \in {"undefined", "null"} \/ IsZero(a.v) \/ IsNaN(a.v) THEN b ELSE a.v

Vec(x, y, z) == [x |-> x, y |-> y, z |-> z]

\* a partial {x?, y?, z?} record; an absent record is the one with no axis
NoAxes == Vec(Undefined, Undefined, Undefined)

\* a variant of SpreadAxis that takes no axis from the base
SpreadAxisOverrideOnly(b, o) == IF o.t = "undefined" THEN Undefined ELSE o.v

\* one axis of { ...base, ...override }
SpreadAxis(b, o) == IF o.t = "undefined" THEN b ELSE o.v

\* { ...base, ...override } for a resolved base and a partial override
Spread(base, override) ==
  Vec(SpreadAxis(base.x, override.x),
      SpreadAxis(base.y, override.y),
      SpreadAxis(base.z, override.z))

-----------------------------------------------------------------------------
(* BezierEasing.js *)

\* Math.min(a, b): NaN when an argument is NaN, and -0 is below +0
DMin(a, b) ==
  IF IsNaN(a) \/ IsNaN(b) THEN NaN
  ELSE IF IsZero(a) /\ IsZero(b) THEN (IF a.s = -1 THEN a ELSE b)
  ELSE IF DLess(b, a) THEN b ELSE a

\* Math.max(a, b): NaN when an argument is NaN, and +0 is above -0
DMax(a, b) ==
  IF IsNaN(a) \/ IsNaN(b) THEN NaN
  ELSE IF IsZero(a) /\ IsZero(b) THEN (IF a.s = 1 THEN a ELSE b)
  ELSE IF DLess(a, b) THEN b ELSE a

\* Math.max(0, Math.min(1, x))
Clamp01(x) == DMax(DZero, DMin(DOne, x))

\* the coefficients of the polynomials, given cx = 3 * x1, bx = 3 * (x2 - x1) - cx
\* and the same of y: `ax = 1 - cx - bx`, `ay = 1 - cy - by`
CoefficientsA(cx, bx, cy, by) ==
  [ax |-> DSub(DSub(DOne, cx), bx), bx |-> bx, cx |-> cx,
   ay |-> DSub(DSub(DOne, cy), by), by |-> by, cy |-> cy]

\* the same given cx and cy: `bx = 3 * (x2 - x1) - cx`, `by = 3 * (y2 - y1) - cy`
CoefficientsB(cx, x1, x2, cy, y1, y2) ==
  CoefficientsA(cx, DSub(DMul(DThree, DSub(x2, x1)), cx),
                cy, DSub(DMul(DThree, DSub(y2, y1)), cy))

\* the polynomial coefficients cubicBezier computes from the control points
\* and the closure it returns captures: `cx = 3 * x1`, `cy = 3 * y1` first
Coefficients(x1, y1, x2, y2) ==
  CoefficientsB(DMul(DThree, x1), x1, x2, DMul(DThree, y1), y1, y2)

\* x1 or x2 is outside [0, 1]
OutsideUnit(x1, x2) ==
  DLess(x1, DZero) \/ DLess(DOne, x1) \/ DLess(x2, DZero) \/ DLess(DOne, x2)

\* a variant of cubicBezier that uses x1 and x2 as given
cubicBezierUnclamped(x1, y1, x2, y2) == Coefficients(x1, y1, x2, y2)

\* cubicBezier(x1, y1, x2, y2): x1 and x2 are clamped to [0, 1] when one of
\* them is outside; a NaN is outside of nothing and is clamped to NaN
cubicBezier(x1, y1, x2, y2) ==
  Coefficients(IF OutsideUnit(x1, x2) THEN Clamp01(x1) ELSE x1, y1,
               IF OutsideUnit(x1, x2) THEN Clamp01(x2) ELSE x2, y2)

\* ((a * t + b) * t + c) * t
calcBezier(t, a, b, c) == DMul(DAdd(DMul(DAdd(DMul(a, t), b), t), c), t)

\* 3 * a * t * t + 2 * b * t + c
getSlope(t, a, b, c) ==
  DAdd(DAdd(DMul(DMul(DMul(DThree, a), t), t), DMul(DMul(DTwo, b), t)), c)

\* number of Newton-Raphson iterations of getTForX
NewtonIterations == 8

\* the loop of getTForX from iteration i on, with the current estimate t
RECURSIVE NewtonLoop(_, _, _, _)
\* the body of the loop after `const slope = getSlope(t, ax, bx, cx)`
RECURSIVE NewtonStep(_, _, _, _, _)
NewtonLoop(curve, x, t, i) ==
  IF i >= NewtonIterations THEN t
  ELSE NewtonStep(curve, x, t, i, getSlope(t, curve.ax, curve.bx, curve.cx))

NewtonStep(curve, x, t, i, slope) ==
  IF IsZero(slope) THEN t
  ELSE NewtonLoop(curve, x,
                  DSub(t, DDiv(DSub(calcBezier(t, curve.ax, curve.bx, curve.cx), x), slope)),
                  i + 1)

getTForX(curve, x) == NewtonLoop(curve, x, x, 0)

\* a variant of EaseRun without the return of 1 at t = 1
EaseRunNoEndpoint(curve, t) ==
  IF IsZero(t) THEN [value |-> DZero, solved |-> FALSE]
  ELSE [value |-> calcBezier(getTForX(curve, t), curve.ay, curve.by, curve.cy),
        solved |-> TRUE]

\* one run of the easing function cubicBezier returns: the value returned, and
\* whether the run called getTForX
EaseRun(curve, t) ==
  IF IsZero(t) THEN [value |-> DZero, solved |-> FALSE]
  ELSE IF DEq(t, DOne) THEN [value |-> DOne, solved |-> FALSE]
  ELSE [value |-> calcBezier(getTForX(curve, t), curve.ay, curve.by, curve.cy),
        solved |-> TRUE]

\* the easing function cubicBezier returns, applied to t
Ease(curve, t) == EaseRun(curve, t).value

EasingNames ==
  {"linear", "easeIn", "easeOut", "easeInOut",
   "easeInQuad", "easeOutQuad", "easeInOutQuad",
   "easeInCubic", "easeOutCubic", "easeInOutCubic",
   "easeInQuart", "easeOutQuart", "easeInOutQuart",
   "easeInBack", "easeOutBack", "easeInOutBack"}

\* the control points of the predefined easings, in thousandths
EasingPoints(name) ==
  CASE name = "linear"         -> <<0, 0, 1000, 1000>>
    [] name = "easeIn"         -> <<420, 0, 1000, 1000>>
    [] name = "easeOut"        -> <<0, 0, 580, 1000>>
    [] name = "easeInOut"      -> <<420, 0, 580, 1000>>
    [] name = "easeInQuad"     -> <<550, 85, 680, 530>>
    [] name = "easeOutQuad"    -> <<250, 460, 450, 940>>
    [] name = "easeInOutQuad"  -> <<455, 30, 515, 955>>
    [] name = "easeInCubic"    -> <<550, 55, 675, 190>>
    [] name = "easeOutCubic"   -> <<215, 610, 355, 1000>>
    [] name = "easeInOutCubic" -> <<645, 45, 355, 1000>>
    [] name = "easeInQuart"    -> <<895, 30, 685, 220>>
    [] name = "easeOutQuart"   -> <<165, 840, 440, 1000>>
    [] name = "easeInOutQuart" -> <<770, 0, 175, 1000>>
    [] name = "easeInBack"     -> <<600, -280, 735, 45>>
    [] name = "easeOutBack"    -> <<175, 885, 320, 1275>>
    [] name = "easeInOutBack"  -> <<680, -550, 265, 1550>>

\* the object Easings: the predefined curves, built once when the module loads
\* by cubicBezier at the control points
Easings ==
  [name \in EasingNames |->
     cubicBezier(Milli(EasingPoints(name)[1]), Milli(EasingPoints(name)[2]),
                 Milli(EasingPoints(name)[3]), Milli(EasingPoints(name)[4]))]

\* an easing given in a transition definition
EUndefined == [kind |-> "undefined"]
EString(str) == [kind |-> "string", name |-> str]
EArray(a) == [kind |-> "array", arr |-> a]
ERecord(t, s, r) == [kind |-> "record", translate |-> t, scale |-> s, rotate |-> r]

\* the array [n1 / 1000, n2 / 1000, ...] of decimal literals
Millis(ns) == [i \in 1..Len(ns) |-> Milli(ns[i])]

\* JavaScript truthiness of an easing value
Truthy(e) == ~(e.kind = "undefined" \/ (e.kind = "string" /\ e.name = ""))

\* e?.translate, e?.scale, e?.rotate: only a record has these properties
EasingProp(e, type) == IF e.kind = "record" THEN e[type] ELSE EUndefined

\* the properties the object literal Easings inherits from Object.prototype:
\* Easings[name] finds them, and each is truthy
InheritedNames ==
  {"constructor", "__proto__", "hasOwnProperty", "isPrototypeOf",
   "propertyIsEnumerable", "toLocaleString", "toString", "valueOf",
   "__defineGetter__", "__defineSetter__", "__lookupGetter__", "__lookupSetter__"}

\* the value of Easings[name] for an inherited name: not an easing curve
Inherited(name) == [inherited |-> name]

getEasing(easing) ==
  IF ~Truthy(easing) THEN Easings["easeOutQuart"]
  ELSE IF easing.kind = "string"
       THEN IF easing.name \in EasingNames THEN Easings[easing.name]
            ELSE IF easing.name \in InheritedNames THEN Inherited(easing.name)
            ELSE Easings["easeOutQuart"]
  ELSE IF easing.kind = "array" /\ Len(easing.arr) = 4
       THEN cubicBezier(easing.arr[1], easing.arr[2], easing.arr[3], easing.arr[4])
  ELSE Easings["easeOutQuart"]

\* the value getEasing returned is a function made by cubicBezier
IsCurve(f) == "ax" \in DOMAIN f

\* calling the value getEasing returned, with the receiver as `this`, throws a
\* TypeError: Object.prototype is not a function, __defineGetter__ and
\* __defineSetter__ reject a missing accessor function, and the methods that
\* convert `this` to an object reject the receiver undefined
CallThrows(f, receiver) ==
  /\ ~IsCurve(f)
  /\ \/ f.inherited \in {"__proto__", "__defineGetter__", "__defineSetter__"}
     \/ /\ receiver = Undefined
        /\ f.inherited \in {"hasOwnProperty", "propertyIsEnumerable", "toLocaleString",
                            "valueOf", "__lookupGetter__", "__lookupSetter__"}

\* the value the call returns when it does not throw: the curve's value; for
\* Object the Number object Object(t), written as the number it holds; false
\* from the property tests, as t names no property and is no object; the tag
\* of the receiver from toString; the receiver from valueOf; undefined from
\* the accessor lookups
CallValue(f, t, receiver) ==
  IF IsCurve(f) THEN Num(Ease(f, t))
  ELSE CASE f.inherited = "constructor" -> Num(t)
         [] f.inherited \in {"hasOwnProperty", "isPrototypeOf", "propertyIsEnumerable"} ->
              [t |-> "boolean", v |-> FALSE]
         [] f.inherited \in {"toString", "toLocaleString"} ->
              [t |-> "string",
               v |-> IF receiver = Undefined THEN "[object Undefined]" ELSE "[object Object]"]
         [] f.inherited = "valueOf" -> receiver
         [] f.inherited \in {"__lookupGetter__", "__lookupSetter__"} -> Undefined

\* the number the operator * makes of a value: an object tag string and
\* undefined give NaN, and so does a plain object, through its toString
ToNumber(value) ==
  CASE value.t = "number" -> value.v
    [] value.t = "boolean" -> IF value.v THEN DOne ELSE DZero
    [] value.t = "null" -> DZero
    [] value.t \in {"undefined", "string", "object"} -> NaN

\* the number `easings.translate(progress)` yields in `(to - from) * tEase`:
\* the call has the object easings as receiver
CallEasing(f, t) == ToNumber(CallValue(f, t, [t |-> "object"]))
-----------------------------------------------------------------------------
(* Platform.js and MovingPlatform.js *)

NoPlatform == [none |-> TRUE]

NoProbe == [none |-> TRUE]

\* no update call made on either platform of a pair
NoCalls ==
  [a |-> [count |-> 0, discarded |-> FALSE, deltas |-> <<>>],
   b |-> [count |-> 0, discarded |-> FALSE, deltas |-> <<>>]]

\* default color of Platform: 0x808080
DefaultColor == 8421504
\* default bpm of MovingPlatform
DefaultBpm == 120

\* the r, g, b channels of a hex color: (hex >> 16) & 255, (hex >> 8) & 255, hex & 255
HexToRGB(hexColor) ==
  [r |-> (hexColor \div 65536) % 256,
   g |-> (hexColor \div 256) % 256,
   b |-> hexColor % 256]

\* Platform constructor: position, color and the mesh placed at position
PlatformFields(opts) ==
  LET position == IF opts.position.t = "undefined" THEN Vec(DZero, DZero, DZero)
                  ELSE opts.position.v
      color == IF opts.color.t = "undefined" \/ opts.color.v = 0 THEN DefaultColor
               ELSE opts.color.v
  IN  [position |-> position,
       color |-> color,
       mesh |-> [position |-> position,
                 scale |-> Vec(DOne, DOne, DOne),
                 rotation |-> Vec(DZero, DZero, DZero),
                 color |-> HexToRGB(color)]]

\* a variant of StartStateOf whose default scale is 0 instead of 1
StartStateOfZeroScale(startState) ==
  [translate |-> Vec(Coalesce(startState.translate.x, DZero),
                     Coalesce(startState.translate.y, DZero),
                     Coalesce(startState.translate.z, DZero)),
   scale |-> Vec(Coalesce(startState.scale.x, DZero),
                 Coalesce(startState.scale.y, DZero),
                 Coalesce(startState.scale.z, DZero)),
   rotate |-> Vec(Coalesce(startState.rotate.x, DZero),
                  Coalesce(startState.rotate.y, DZero),
                  Coalesce(startState.rotate.z, DZero)),
   colorIndex |-> IF startState.colorIndex.t = "undefined" THEN Null
                  ELSE startState.colorIndex]

\* the start state: the given axes with defaults for the missing ones
StartStateOf(startState) ==
  [translate |-> Vec(Coalesce(startState.translate.x, DZero),
                     Coalesce(startState.translate.y, DZero),
                     Coalesce(startState.translate.z, DZero)),
   scale |-> Vec(Coalesce(startState.scale.x, DOne),
                 Coalesce(startState.scale.y, DOne),
                 Coalesce(startState.scale.z, DOne)),
   rotate |-> Vec(Coalesce(startState.rotate.x, DZero),
                  Coalesce(startState.rotate.y, DZero),
                  Coalesce(startState.rotate.z, DZero)),
   colorIndex |-> IF startState.colorIndex.t = "undefined" THEN Null
                  ELSE startState.colorIndex]

\* getEasing(def.easing?.[type] || def.easing || 'easeOutQuart')
EasingFor(def, type) ==
  getEasing(IF Truthy(EasingProp(def.easing, type)) THEN EasingProp(def.easing, type)
            ELSE IF Truthy(def.easing) THEN def.easing
            ELSE EString("easeOutQuart"))

\* a variant of ParseTransition that uses the easing of translate for scale and
\* rotate too
ParseTransitionOneEasing(self, def, currentColorIndex) ==
  [duration |-> DMul(OrElse(def.beats, DOne), self.secondsPerBeat),
   targetState |->
     [translate |-> Spread(self.startState.translate, def.transforms.translate),
      scale |-> Spread(self.startState.scale, def.transforms.scale),
      rotate |-> Spread(self.startState.rotate, def.transforms.rotate),
      colorIndex |-> currentColorIndex],
   easings |-> [translate |-> EasingFor(def, "translate"),
                scale |-> EasingFor(def, "translate"),
                rotate |-> EasingFor(def, "translate")]]

\* the body of the map callback of parseTransitions for one definition, with
\* currentColorIndex already updated for this definition
ParseTransition(self, def, currentColorIndex) ==
  [duration |-> DMul(OrElse(def.beats, DOne), self.secondsPerBeat),
   targetState |->
     [translate |-> Spread(self.startState.translate, def.transforms.translate),
      scale |-> Spread(self.startState.scale, def.transforms.scale),
      rotate |-> Spread(self.startState.rotate, def.transforms.rotate),
      colorIndex |-> currentColorIndex],
   easings |-> [translate |-> EasingFor(def, "translate"),
                scale |-> EasingFor(def, "scale"),
                rotate |-> EasingFor(def, "rotate")]]

\* a variant of NextColorIndex that does not carry the color index forward
NextColorIndexNoCarry(def, currentColorIndex) ==
  IF def.transforms.colorIndex # Undefined THEN def.transforms.colorIndex
  ELSE Null

\* the color index parseTransitions carries into the target of a definition
NextColorIndex(def, currentColorIndex) ==
  IF def.transforms.colorIndex # Undefined THEN def.transforms.colorIndex
  ELSE currentColorIndex

\* transitionDefs.map(...) from definition k on, with the running color index
RECURSIVE MapTransitions(_, _, _, _)
\* the callback for definition k with currentColorIndex updated, and the rest
RECURSIVE MapTransition(_, _, _, _)
MapTransitions(self, transitionDefs, k, currentColorIndex) ==
  IF k > Len(transitionDefs) THEN <<>>
  ELSE MapTransition(self, transitionDefs, k,
                     NextColorIndex(transitionDefs[k], currentColorIndex))

MapTransition(self, transitionDefs, k, currentColorIndex) ==
  <<ParseTransition(self, transitionDefs[k], currentColorIndex)>>
    \o MapTransitions(self, transitionDefs, k + 1, currentColorIndex)

parseTransitions(self, transitionDefs) ==
  MapTransitions(self, transitionDefs, 1, self.startState.colorIndex)

\* interpolateStates throws a TypeError at the call of one of the easings
InterpolateThrows(easings) ==
  \/ CallThrows(easings.translate, [t |-> "object"])
  \/ CallThrows(easings.scale, [t |-> "object"])
  \/ CallThrows(easings.rotate, [t |-> "object"])

\* applyState(state): the mesh with the state applied
applyState(self, state) ==
  [self.mesh EXCEPT
     !.position = Vec(DAdd(self.basePosition.x, state.translate.x),
                      DAdd(self.basePosition.y, state.translate.y),
                      DAdd(self.basePosition.z, state.translate.z)),
     !.scale = Vec(state.scale.x, state.scale.y, state.scale.z),
     !.rotation = Vec(state.rotate.x, state.rotate.y, state.rotate.z)]

\* a variant of Lerp that clamps the eased parameter to [0, 1]
LerpClamped(from, to, ease) == DAdd(from, DMul(DSub(to, from), Clamp01(ease)))

\* from + (to - from) * ease
Lerp(from, to, ease) == DAdd(from, DMul(DSub(to, from), ease))

LerpVec(from, to, ease) ==
  Vec(Lerp(from.x, to.x, ease), Lerp(from.y, to.y, ease), Lerp(from.z, to.z, ease))

\* interpolateStates(fromState, toState, progress, easings)
interpolateStates(fromState, toState, progress, easings) ==
  [translate |-> LerpVec(fromState.translate, toState.translate,
                         CallEasing(easings.translate, progress)),
   scale |-> LerpVec(fromState.scale, toState.scale,
                     CallEasing(easings.scale, progress)),
   rotate |-> LerpVec(fromState.rotate, toState.rotate,
                      CallEasing(easings.rotate, progress))]

\* a variant of getColorFromPalette that takes the index 0 for a missing index
getColorFromPaletteFalsy(self, index) ==
  IF index = Null \/ index.v <= 0 \/ index.v >= Len(self.colorPalette) THEN Null
  ELSE HexToRGB(self.colorPalette[index.v + 1])

\* getColorFromPalette(index): Null, or the color of the palette entry
getColorFromPalette(self, index) ==
  IF index = Null \/ index.v < 0 \/ index.v >= Len(self.colorPalette) THEN Null
  ELSE HexToRGB(self.colorPalette[index.v + 1])

\* the material color after `if (colorIndex !== null && palette.length > 0)
\* { color = getColorFromPalette(colorIndex); if (color) setRGB(color) }`
ApplyColor(self, colorIndex) ==
  IF colorIndex # Null /\ Len(self.colorPalette) > 0
  THEN LET color == getColorFromPalette(self, colorIndex)
       IN  IF color # Null THEN color ELSE self.mesh.color
  ELSE self.mesh.color

\* a copy of a state: { translate: {...}, scale: {...}, rotate: {...}, colorIndex }
CopyState(state) ==
  [translate |-> state.translate, scale |-> state.scale,
   rotate |-> state.rotate, colorIndex |-> state.colorIndex]

\* the end of the constructor: the color of the start state is looked up in
\* the palette and applied
ConstructColor(self) ==
  [self EXCEPT !.mesh.color = ApplyColor(self, self.startState.colorIndex)]

\* a variant of ConstructMachine in which applyState also moves
\* `this.position`, the object of the options, to the start position
ConstructMachineMovingPosition(self) ==
  [position |-> applyState(self, self.startState).position,
   color |-> self.color,
   mesh |-> applyState(self, self.startState),
   bpm |-> self.bpm,
   secondsPerBeat |-> self.secondsPerBeat,
   colorPalette |-> self.colorPalette,
   states |-> self.states,
   startState |-> self.startState,
   basePosition |-> self.basePosition,
   baseScale |-> self.baseScale,
   baseRotation |-> self.baseRotation,
   transitions |-> parseTransitions(self, self.states.transitions),
   currentTransitionIndex |-> 0,
   transitionProgress |-> DZero,
   elapsedTime |-> DZero,
   currentState |-> CopyState(self.startState)]

\* the constructor from `this.transitions = ...` to `this.applyState(...)`
ConstructMachine(self) ==
  [position |-> self.position,
   color |-> self.color,
   mesh |-> applyState(self, self.startState),
   bpm |-> self.bpm,
   secondsPerBeat |-> self.secondsPerBeat,
   colorPalette |-> self.colorPalette,
   states |-> self.states,
   startState |-> self.startState,
   basePosition |-> self.basePosition,
   baseScale |-> self.baseScale,
   baseRotation |-> self.baseRotation,
   transitions |-> parseTransitions(self, self.states.transitions),
   currentTransitionIndex |-> 0,
   transitionProgress |-> DZero,
   elapsedTime |-> DZero,
   currentState |-> CopyState(self.startState)]

\* the constructor from `this.bpm = ...` to the base transforms, after
\* super(options) made the fields of base
ConstructTiming(base, opts, bpm) ==
  [position |-> base.position,
   color |-> base.color,
   mesh |-> base.mesh,
   bpm |-> bpm,
   secondsPerBeat |-> DDiv(DInt(60), bpm),
   colorPalette |-> opts.colorPalette,
   states |-> opts.states,
   startState |-> StartStateOf(opts.states.startState),
   basePosition |-> base.position,
   baseScale |-> Vec(DOne, DOne, DOne),
   baseRotation |-> Vec(DZero, DZero, DZero)]

\* new MovingPlatform(options)
Construct(opts) ==
  ConstructColor(
    ConstructMachine(
      ConstructTiming(PlatformFields(opts), opts, OrElse(opts.bpm, DInt(DefaultBpm)))))

\* this.transitions[index] is an element (not undefined)
HasTransition(self, index) == index >= 0 /\ index < Len(self.transitions)

\* a variant of IsStatic that lacks the early return of a static platform
IsStaticNever(self) == FALSE

\* `if (this.transitions.length === 0) return;`
IsStatic(self) == Len(self.transitions) = 0

\* a variant of Accumulate that drops the progress made before the call
AccumulateForgetful(progress, step) == step

\* `this.transitionProgress += step`
Accumulate(progress, step) == DAdd(progress, step)

\* a variant of IsComplete that is `this.transitionProgress > 1`
IsCompleteBeyond(progress) == DLess(DOne, progress)

\* `this.transitionProgress >= 1`
IsComplete(progress) == DLe(DOne, progress)

\* a variant of CompletedProgress that carries the overshoot into the next transition
CarriedProgress(progress) == DSub(progress, DOne)

\* the progress a completed transition leaves: `this.transitionProgress = 0`
CompletedProgress(progress) == DZero

\* a variant of NextIndex that loops back one transition too late
NextIndexLate(self) ==
  LET index == self.currentTransitionIndex + 1
  IN  IF index > Len(self.transitions) THEN 0 ELSE index

\* `this.currentTransitionIndex++` and the loop back to 0 after the last transition
NextIndex(self) ==
  LET index == self.currentTransitionIndex + 1
  IN  IF index >= Len(self.transitions) THEN 0 ELSE index

\* a variant of NextCurrentState that does not return to the start state
NextCurrentStateNoLoop(self, currentTransition) ==
  CopyState(currentTransition.targetState)

\* a variant of NextCurrentState that always returns to the start state
NextCurrentStateRestart(self, currentTransition) ==
  CopyState(self.startState)

\* a variant of NextCurrentState that, after the last transition, animates from
\* the target of the first transition instead of the start state
NextCurrentStateSkipStart(self, currentTransition) ==
  IF self.currentTransitionIndex + 1 >= Len(self.transitions)
  THEN CopyState(self.transitions[1].targetState)
  ELSE CopyState(currentTransition.targetState)

\* the state the next transition animates from: the start state after the last
\* transition, else the target of the transition just completed
NextCurrentState(self, currentTransition) ==
  IF self.currentTransitionIndex + 1 >= Len(self.transitions)
  THEN CopyState(self.startState)
  ELSE CopyState(currentTransition.targetState)

\* a variant of CompleteTransition that also writes into startState and into
\* the target of the transition just completed
CompleteTransitionAliased(self, currentTransition) ==
  LET s1 == [self EXCEPT
               !.transitionProgress = CompletedProgress(@),
               !.currentTransitionIndex = NextIndex(self),
               !.currentState = NextCurrentState(self, currentTransition),
               !.startState.colorIndex = currentTransition.targetState.colorIndex,
               !.transitions[self.currentTransitionIndex + 1].targetState.translate =
                  self.currentState.translate]
  IN  IF ~HasTransition(s1, s1.currentTransitionIndex) THEN s1
      ELSE LET nextTransition == s1.transitions[s1.currentTransitionIndex + 1]
           IN  [s1 EXCEPT
                  !.mesh.color = ApplyColor(s1, nextTransition.targetState.colorIndex)]

\* a variant of CompleteTransition that applies the color of the state the next
\* transition animates from: after the last transition, that of the start state
CompleteTransitionFromColor(self, currentTransition) ==
  LET s1 == [self EXCEPT
               !.transitionProgress = CompletedProgress(@),
               !.currentTransitionIndex = NextIndex(self),
               !.currentState = NextCurrentState(self, currentTransition)]
  IN  IF ~HasTransition(s1, s1.currentTransitionIndex) THEN s1
      ELSE [s1 EXCEPT !.mesh.color = ApplyColor(s1, s1.currentState.colorIndex)]

\* the block of update(delta) that runs when the transition is complete; reading
\* nextTransition.targetState of an undefined nextTransition throws before the
\* color is applied
CompleteTransition(self, currentTransition) ==
  LET s1 == [self EXCEPT
               !.transitionProgress = CompletedProgress(@),
               !.currentTransitionIndex = NextIndex(self),
               !.currentState = NextCurrentState(self, currentTransition)]
  IN  IF ~HasTransition(s1, s1.currentTransitionIndex) THEN s1
      ELSE LET nextTransition == s1.transitions[s1.currentTransitionIndex + 1]
           IN  [s1 EXCEPT
                  !.mesh.color = ApplyColor(s1, nextTransition.targetState.colorIndex)]

\* a variant of UpdatePose that also applies the color of the current
\* transition's target, on every call, complete or not
UpdatePoseColoring(self) ==
  IF ~HasTransition(self, self.currentTransitionIndex) THEN self
  ELSE IF InterpolateThrows(self.transitions[self.currentTransitionIndex + 1].easings)
  THEN self
  ELSE [self EXCEPT
          !.mesh =
             [applyState(self,
                         interpolateStates(
                           self.currentState,
                           self.transitions[self.currentTransitionIndex + 1].targetState,
                           self.transitionProgress,
                           self.transitions[self.currentTransitionIndex + 1].easings))
              EXCEPT !.color =
                ApplyColor(self,
                           self.transitions[self.currentTransitionIndex + 1]
                             .targetState.colorIndex)]]

\* the last block of update(delta): interpolate between currentState and the
\* target of the current transition and apply the pose; reading a property of
\* an undefined nextTransition throws, and so does calling an easing that is
\* not a function
UpdatePose(self) ==
  IF ~HasTransition(self, self.currentTransitionIndex) THEN self
  ELSE IF InterpolateThrows(self.transitions[self.currentTransitionIndex + 1].easings)
  THEN self
  ELSE [self EXCEPT
          !.mesh =
             applyState(self,
                        interpolateStates(
                          self.currentState,
                          self.transitions[self.currentTransitionIndex + 1].targetState,
                          self.transitionProgress,
                          self.transitions[self.currentTransitionIndex + 1].easings))]

\* `if (this.transitionProgress >= 1) { ... }` for the transition the call
\* found current
UpdateCompletion(self, currentTransition) ==
  IF IsComplete(self.transitionProgress) THEN CompleteTransition(self, currentTransition)
  ELSE self

\* `this.transitionProgress += delta / currentTransition.duration`
UpdateProgress(self, delta, currentTransition) ==
  [self EXCEPT !.transitionProgress =
                  Accumulate(@, DDiv(delta, currentTransition.duration))]

\* update(delta) from `const currentTransition = ...` on; where the code reads
\* a property of an undefined transition it throws, and the fields keep the
\* values assigned before the throw
UpdateTransition(self, delta) ==
  IF ~HasTransition(self, self.currentTransitionIndex) THEN self
  ELSE UpdatePose(
         UpdateCompletion(
           UpdateProgress(self, delta, self.transitions[self.currentTransitionIndex + 1]),
           self.transitions[self.currentTransitionIndex + 1]))

\* update(delta) past the check for a static platform: `this.elapsedTime += delta`
\* and the rest
Advance(self, delta) ==
  UpdateTransition([self EXCEPT !.elapsedTime = DAdd(@, delta)], delta)

\* update(delta)
Update(self, delta) == IF IsStatic(self) THEN self ELSE Advance(self, delta)

\* update(delta) completes the transition with progress beyond 1: the part of
\* delta past the end of the transition is lost when the progress is set to 0
Overshoots(self, delta) ==
  /\ ~IsStatic(self)
  /\ HasTransition(self, self.currentTransitionIndex)
  /\ LET currentTransition == self.transitions[self.currentTransitionIndex + 1]
     IN  DLess(DOne, DAdd(self.transitionProgress, DDiv(delta, currentTransition.duration)))

\* update(delta) threw a TypeError: it read a property of this.transitions[index]
\* at an index that has no element, before the call or after the index moved,
\* or interpolateStates threw
UpdateThrew(self, after) ==
  /\ ~IsStatic(self)
  /\ \/ ~HasTransition(self, self.currentTransitionIndex)
     \/ ~HasTransition(after, after.currentTransitionIndex)
     \/ InterpolateThrows(after.transitions[after.currentTransitionIndex + 1].easings)

-----------------------------------------------------------------------------
(* Inputs *)

\* a transition definition of options.states.transitions; absent transforms
\* are the record with no axis, an absent colorIndex is Undefined
Def(beats, easing, translate, scale, rotate, colorIndex) ==
  [beats |-> beats, easing |-> easing,
   transforms |-> [translate |-> translate, scale |-> scale,
                   rotate |-> rotate, colorIndex |-> colorIndex]]

Y(v) == Vec(Undefined, Num(v), Undefined)
X(v) == Vec(Num(v), Undefined, Undefined)
Z(v) == Vec(Undefined, Undefined, Num(v))

\* { beats: 2, easing: "linear", transforms: { translate: { y: 3 } } }
Rise == Def(Num(DInt(2)), EString("linear"), Y(DInt(3)), NoAxes, NoAxes, Undefined)

\* { beats: 2, easing: "easeIn", transforms: { translate: { y: 0 } } }
Fall == Def(Num(DInt(2)), EString("easeIn"), Y(DZero), NoAxes, NoAxes, Undefined)

\* { transforms: { scale: { x: 2 }, colorIndex: 1 } }
Widen == Def(Undefined, EUndefined, NoAxes, X(DInt(2)), NoAxes, Num(1))

\* { beats: 1, easing: { translate: "easeOutBack" },
\*   transforms: { translate: { x: 1 }, rotate: { z: 1.57 }, colorIndex: 5 } }
Swing == Def(Num(DInt(1)), ERecord(EString("easeOutBack"), EUndefined, EUndefined),
             X(DInt(1)), NoAxes, Z(Milli(1570)), Num(5))

\* { beats: -1, transforms: { translate: { x: 1 } } }
Backward == Def(Num(DInt(-1)), EUndefined, X(DInt(1)), NoAxes, NoAxes, Undefined)

\* { beats: 0, easing: [0.5, 0.5, 0.5, 0.5], transforms: { colorIndex: null } }
Beatless == Def(Num(DZero), EArray(Millis(<<500, 500, 500, 500>>)),
                NoAxes, NoAxes, NoAxes, Null)

\* the values of options.states.transitions: no transition, each definition
\* alone, and sequences of them
Programmes ==
  {p \in {<<>>, <<Rise>>, <<Fall>>, <<Widen>>, <<Swing>>, <<Backward>>, <<Beatless>>,
          <<Rise, Fall>>, <<Rise, Widen>>, <<Widen, Rise>>, <<Swing, Widen>>,
          <<Widen, Beatless>>, <<Backward, Widen>>,
          <<Rise, Fall, Widen>>, <<Widen, Swing, Rise>>} :
     Len(p) <= MaxTransitions}

StartStates ==
  { \* {}
    [translate |-> NoAxes, scale |-> NoAxes, rotate |-> NoAxes, colorIndex |-> Undefined],
    \* { translate: { y: 1 }, scale: { x: 0.5 }, colorIndex: 0 }
    [translate |-> Y(DInt(1)), scale |-> X(Milli(500)), rotate |-> NoAxes,
     colorIndex |-> Num(0)] }

\* [], and [0xff0000, 0x00ff00]
Palettes == {<<>>, <<16711680, 65280>>}

Bpms == {Undefined, Num(DInt(60))}

\* the position { x: 1, y: 0, z: 2 } of the platform
Positions == {[t |-> "object", v |-> Vec(DInt(1), DZero, DInt(2))]}

\* the color 0xff6b6b of the platform
Colors == {Num(16739179)}

Options ==
  [position : Positions, color : Colors, bpm : Bpms, colorPalette : Palettes,
   states : [startState : StartStates, transitions : Programmes]]

\* the values of delta (seconds) update is called with: 0, 0.25, 1, 2
Deltas == {Milli(0), Milli(250), Milli(1000), Milli(2000)}

-----------------------------------------------------------------------------
(* The state machine *)

\* the variables of the second platform and of the easing probe, unused
Unused ==
  /\ other = NoPlatform
  /\ heap = NoPlatform
  /\ calls = NoCalls
  /\ probe = NoProbe

Init ==
  /\ options \in Options
  /\ platform = NoPlatform
  /\ pc = "start"
  /\ thrown = FALSE
  /\ Unused

\* platform = new MovingPlatform(options); no statement of the constructor throws
New ==
  /\ pc = "start"
  /\ platform' = Construct(options)
  /\ pc' = "constructed"
  /\ thrown' = FALSE
  /\ UNCHANGED <<options, other, heap, calls, probe>>

\* platform.update(delta), as BaseLevel.update calls it every frame
Tick(delta) ==
  /\ pc # "start"
  /\ DLe(DAdd(platform.elapsedTime, delta), Milli(MaxElapsed))
  /\ platform' = Update(platform, delta)
  /\ thrown' = UpdateThrew(platform, platform')
  /\ pc' = "updated"
  /\ UNCHANGED <<options, other, heap, calls, probe>>

Next == New \/ \E delta \in Deltas : Tick(delta)

Spec == Init /\ [][Next]_vars

-----------------------------------------------------------------------------
(* Platforms whose transitions name their easing by a string that is not a
   predefined easing but a property Easings inherits *)

NameDefs ==
  { \* { beats: 2, easing: "linear", transforms: { translate: { y: 3 } } }
    Rise,
    \* { beats: 1, easing: "__proto__", transforms: { translate: { y: 1 } } }
    Def(Num(DInt(1)), EString("__proto__"), Y(DInt(1)), NoAxes, NoAxes, Undefined),
    \* { beats: 1, easing: "constructor", transforms: { translate: { x: 1 } } }
    Def(Num(DInt(1)), EString("constructor"), X(DInt(1)), NoAxes, NoAxes, Undefined),
    \* { beats: 1, easing: { scale: "__proto__" }, transforms: { scale: { x: 2 } } }
    Def(Num(DInt(1)), ERecord(EUndefined, EString("__proto__"), EUndefined),
        NoAxes, X(DInt(2)), NoAxes, Undefined),
    \* { beats: 1, easing: "toString", transforms: { translate: { x: 1 } } }
    Def(Num(DInt(1)), EString("toString"), X(DInt(1)), NoAxes, NoAxes, Undefined),
    \* { beats: 1, easing: { rotate: "hasOwnProperty" }, transforms: { rotate: { z: 1.57 } } }
    Def(Num(DInt(1)), ERecord(EUndefined, EUndefined, EString("hasOwnProperty")),
        NoAxes, NoAxes, Z(Milli(1570)), Undefined) }

RECURSIVE SeqsUpTo(_, _)
SeqsUpTo(S, n) ==
  IF n = 0 THEN {<<>>}
  ELSE LET shorter == SeqsUpTo(S, n - 1)
       IN  shorter \cup {Append(q, e) : q \in {r \in shorter : Len(r) = n - 1}, e \in S}

NameOptions ==
  [position : Positions, color : Colors, bpm : {Undefined}, colorPalette : {<<>>},
   states : [startState : {s \in StartStates : s.colorIndex = Undefined},
             transitions : SeqsUpTo(NameDefs, MaxTransitions)]]

InitNames ==
  /\ options \in NameOptions
  /\ platform = NoPlatform
  /\ pc = "start"
  /\ thrown = FALSE
  /\ Unused

SpecNames == InitNames /\ [][Next]_vars

-----------------------------------------------------------------------------
(* Platforms whose transitions give their easing in each of its forms *)

FormDefs ==
  { \* { beats: 2, easing: "easeIn", transforms: { translate: { y: 3 }, scale: { x: 2 } } }
    Def(Num(DInt(2)), EString("easeIn"), Y(DInt(3)), X(DInt(2)), NoAxes, Undefined),
    \* { beats: 1, easing: [0.25, 0.1, 0.25, 1], transforms: { translate: { x: 1 } } }
    Def(Num(DInt(1)), EArray(Millis(<<250, 100, 250, 1000>>)),
        X(DInt(1)), NoAxes, NoAxes, Undefined),
    \* { beats: 2, easing: { translate: "easeOut", scale: "easeInOut", rotate: "easeInBack" },
    \*   transforms: { translate: { y: 3 }, scale: { x: 1.2 }, rotate: { y: 1.57 } } }
    Def(Num(DInt(2)),
        ERecord(EString("easeOut"), EString("easeInOut"), EString("easeInBack")),
        Y(DInt(3)), X(Milli(1200)), Vec(Undefined, Num(Milli(1570)), Undefined), Undefined),
    \* { beats: 1, easing: { scale: [0.3, -0.5, 0.7, 1.5], rotate: "linear" },
    \*   transforms: { translate: { y: 1 }, scale: { y: 2 }, rotate: { z: 1 } } }
    Def(Num(DInt(1)),
        ERecord(EUndefined, EArray(Millis(<<300, -500, 700, 1500>>)), EString("linear")),
        Y(DInt(1)), Y(DInt(2)), Z(DInt(1)), Undefined),
    \* { beats: 1, transforms: { translate: { y: 2 }, scale: { x: 3 }, rotate: { z: 1 } } }
    Def(Num(DInt(1)), EUndefined, Y(DInt(2)), X(DInt(3)), Z(DInt(1)), Undefined) }

FormOptions ==
  [position : Positions, color : Colors, bpm : {Undefined}, colorPalette : {<<>>},
   states : [startState : {s \in StartStates : s.colorIndex = Undefined},
             transitions : {p \in SeqsUpTo(FormDefs, MaxTransitions) : Len(p) >= 1}]]

InitForms ==
  /\ options \in FormOptions
  /\ platform = NoPlatform
  /\ pc = "start"
  /\ thrown = FALSE
  /\ Unused

SpecForms == InitForms /\ [][Next]_vars

-----------------------------------------------------------------------------
(* A platform of one transition under update calls with a constant delta *)

\* the number of update calls of a run
MaxFrames == 64

\* the values of delta in seconds: 0.05, 0.1, 0.2, 0.25, 0.3 and 1 / 30
FrameDeltas ==
  {Milli(50), Milli(100), Milli(200), Milli(250), Milli(300), DDiv(DInt(1), DInt(30))}

\* one linear transition of 1 beat at 120 bpm, of 2 beats at 120 bpm, of 2 beats
\* at 60 bpm and of 1 beat at 90 bpm: the durations 0.5, 1, 2 and 60 / 90
FrameOptions ==
  {[position |-> Undefined, color |-> Undefined, bpm |-> setup[1],
    colorPalette |-> <<>>,
    states |-> [startState |-> [translate |-> NoAxes, scale |-> NoAxes,
                                rotate |-> NoAxes, colorIndex |-> Undefined],
                transitions |-> <<Def(Num(setup[2]), EString("linear"), Y(DInt(3)),
                                      NoAxes, NoAxes, Undefined)>>]] :
     setup \in {<<Undefined, DInt(1)>>, <<Undefined, DInt(2)>>,
                <<Num(DInt(60)), DInt(2)>>, <<Num(DInt(90)), DInt(1)>>}}

InitFrames ==
  /\ options \in FrameOptions
  /\ probe \in {[delta |-> d, frames |-> 0, sinceEntered |-> 0, completedOn |-> 0] :
                  d \in FrameDeltas}
  /\ platform = NoPlatform
  /\ other = NoPlatform
  /\ heap = NoPlatform
  /\ calls = NoCalls
  /\ pc = "start"
  /\ thrown = FALSE

\* platform.update(delta) with the delta of the run; completedOn is the number
\* of the call, counted from the entry into the transition, that completed it
\* last
Frame ==
  /\ pc # "start"
  /\ probe.frames < MaxFrames
  /\ platform' = Update(platform, probe.delta)
  /\ LET complete ==
           IsComplete(Accumulate(platform.transitionProgress,
                                 DDiv(probe.delta, platform.transitions[1].duration)))
     IN  probe' = [probe EXCEPT
                     !.frames = @ + 1,
                     !.sinceEntered = IF complete THEN 0 ELSE @ + 1,
                     !.completedOn = IF complete THEN probe.sinceEntered + 1 ELSE @]
  /\ thrown' = UpdateThrew(platform, platform')
  /\ pc' = "updated"
  /\ UNCHANGED <<options, other, heap, calls>>

NextFrames == New \/ Frame

SpecFrames == InitFrames /\ [][NextFrames]_vars

-----------------------------------------------------------------------------
(* getEasing and the easing it returns, taken alone *)

\* the arguments getEasing is called with
EasingInputs ==
  {EUndefined, EString("")}
    \cup {EString(name) : name \in EasingNames}
    \cup {EString("bounce"), EString("Linear")}
    \cup {EString(name) : name \in InheritedNames}
    \cup {EArray(Millis(<<250, 100, 250, 1000>>)), EArray(Millis(<<500, 500, 500, 500>>)),
          EArray(Millis(<<-500, 0, 1500, 1000>>)), EArray(Millis(<<300, -500, 700, 1500>>)),
          EArray(Millis(<<1200, -300, 400, 1300>>)), EArray(Millis(<<1000, 0, 0, 1000>>))}
    \cup {EArray(<<NaN, DZero, DInt(2), DOne>>), EArray(<<Milli(-500), DZero, NaN, DOne>>),
          EArray(<<NaN, DZero, Milli(500), DOne>>), EArray(<<Milli(250), NaN, Milli(750), DOne>>)}
    \cup {EArray(<<>>), EArray(Millis(<<420, 0, 580>>)),
          EArray(Millis(<<420, 0, 580, 1000, 0>>))}
    \cup {ERecord(EString("linear"), EUndefined, EUndefined)}

\* the arguments t the easing is called with: 0, 1/4, 1/2, 0.501, 3/4, 1
ProbeTimes == {Milli(0), Milli(250), Milli(500), Milli(501), Milli(750), Milli(1000)}

InitEasing ==
  /\ probe \in {[easing |-> e, t |-> t, stage |-> "given", f |-> Undefined,
                  value |-> Undefined, solved |-> FALSE] :
                   e \in EasingInputs, t \in ProbeTimes}
  /\ options = Undefined
  /\ platform = NoPlatform
  /\ other = NoPlatform
  /\ heap = NoPlatform
  /\ calls = NoCalls
  /\ pc = "start"
  /\ thrown = FALSE

\* f = getEasing(easing); no statement of getEasing throws
LookUp ==
  /\ probe.stage = "given"
  /\ probe' = [probe EXCEPT !.f = getEasing(probe.easing), !.stage = "found"]
  /\ thrown' = FALSE
  /\ UNCHANGED <<options, platform, pc, other, heap, calls>>

\* value = f(t): the call has no receiver, `this` is undefined
Evaluate ==
  /\ probe.stage = "found"
  /\ probe' =
       IF IsCurve(probe.f)
       THEN LET run == EaseRun(probe.f, probe.t)
            IN  [probe EXCEPT !.value = Num(run.value), !.solved = run.solved,
                              !.stage = "evaluated"]
       ELSE IF CallThrows(probe.f, Undefined) THEN [probe EXCEPT !.stage = "evaluated"]
       ELSE [probe EXCEPT !.value = CallValue(probe.f, probe.t, Undefined),
                          !.stage = "evaluated"]
  /\ thrown' = CallThrows(probe.f, Undefined)
  /\ UNCHANGED <<options, platform, pc, other, heap, calls>>

NextEasing == LookUp \/ Evaluate

SpecEasing == InitEasing /\ [][NextEasing]_vars

-----------------------------------------------------------------------------------------------------------------------------------------------------
(* Two platforms of one configuration, updated independently *)

\* the configurations of the pair: the default start state, the palette
\* [0xff0000, 0x00ff00], a first transition
\* { beats: 2, easing: "linear", transforms: { translate: { y: 3 } } }, and
\* further transitions with the easing "easeIn" or none
PairOptions ==
  {o \in Options :
     /\ o.colorPalette # <<>>
     /\ o.states.startState.colorIndex = Undefined
     /\ Len(o.states.transitions) >= 1
     /\ o.states.transitions[1].easing = EString("linear")
     /\ \A k \in 2..Len(o.states.transitions) :
          o.states.transitions[k].easing \in {EString("easeIn"), EUndefined}}

\* the values of delta (seconds) the platforms of the pair are updated with
PairDeltas == {Milli(500), Milli(1000), Milli(2000)}

\* the heap before a platform is constructed: the objects opts.position,
\* opts.colorPalette and opts.states of options that give the three
Objects(opts) ==
  [position |-> opts.position.v,
   colorPalette |-> opts.colorPalette,
   states |-> opts.states,
   first |-> NoPlatform, firstMesh |-> NoPlatform,
   second |-> NoPlatform, secondMesh |-> NoPlatform]

\* a variant of References in which createMesh makes one mesh, which every
\* platform uses
ReferencesSharedMesh(name) ==
  [this |-> name,
   mesh |-> "firstMesh",
   position |-> "position",
   colorPalette |-> "colorPalette",
   states |-> "states"]

\* the addresses of the objects the platform called name refers to: itself,
\* the mesh createMesh made for it (`new THREE.Mesh` on every call), and
\* position, colorPalette and states, which the constructors assign from the
\* options without copying
References(name) ==
  [this |-> name,
   mesh |-> IF name = "first" THEN "firstMesh" ELSE "secondMesh",
   position |-> "position",
   colorPalette |-> "colorPalette",
   states |-> "states"]

\* the fields of the platform called name, each object read through the
\* reference the platform holds
Load(store, name) ==
  [store[name] EXCEPT !.position = store[@], !.colorPalette = store[@],
                      !.states = store[@], !.mesh = store[@]]

\* the heap after a call left the fields of the platform called name as self:
\* the fields of the objects it refers to are written in these objects
Store(store, name, self) ==
  [store EXCEPT ![References(name).this] =
                   [self EXCEPT !.position = References(name).position,
                                !.colorPalette = References(name).colorPalette,
                                !.states = References(name).states,
                                !.mesh = References(name).mesh],
                ![References(name).position] = self.position,
                ![References(name).colorPalette] = self.colorPalette,
                ![References(name).states] = self.states,
                ![References(name).mesh] = self.mesh]

\* the heap after `new MovingPlatform(opts)` made the platform called name:
\* the constructor reads position, colorPalette and states of opts as they
\* are in the heap
Allocate(store, name, opts) ==
  Store(store, name,
        Construct([opts EXCEPT !.position = [t |-> "object", v |-> store.position],
                               !.colorPalette = store.colorPalette,
                               !.states = store.states]))

InitPair ==
  /\ options \in PairOptions
  /\ platform = NoPlatform
  /\ other = NoPlatform
  /\ heap = Objects(options)
  /\ calls = NoCalls
  /\ pc = "start"
  /\ thrown = FALSE
  /\ probe = NoProbe

\* two platforms are constructed from the same options, one after the other;
\* no statement of the constructor throws
NewPair ==
  /\ pc = "start"
  /\ heap' = Allocate(Allocate(heap, "first", options), "second", options)
  /\ platform' = Load(heap', "first")
  /\ other' = Load(heap', "second")
  /\ pc' = "constructed"
  /\ thrown' = FALSE
  /\ UNCHANGED <<options, calls, probe>>

\* platform.update(delta)
TickFirst(delta) ==
  /\ pc # "start"
  /\ DLe(DAdd(platform.elapsedTime, delta), Milli(MaxElapsed))
  /\ heap' = Store(heap, "first", Update(Load(heap, "first"), delta))
  /\ platform' = Load(heap', "first")
  /\ other' = Load(heap', "second")
  /\ calls' = [calls EXCEPT !.a = [count |-> @.count + 1,
                                   discarded |-> @.discarded \/ Overshoots(platform, delta),
                                   deltas |-> Append(@.deltas, delta)]]
  /\ thrown' = UpdateThrew(platform, platform')
  /\ pc' = "updated"
  /\ UNCHANGED <<options, probe>>

\* other.update(delta)
TickSecond(delta) ==
  /\ pc # "start"
  /\ DLe(DAdd(other.elapsedTime, delta), Milli(MaxElapsed))
  /\ heap' = Store(heap, "second", Update(Load(heap, "second"), delta))
  /\ platform' = Load(heap', "first")
  /\ other' = Load(heap', "second")
  /\ calls' = [calls EXCEPT !.b = [count |-> @.count + 1,
                                   discarded |-> @.discarded \/ Overshoots(other, delta),
                                   deltas |-> Append(@.deltas, delta)]]
  /\ thrown' = UpdateThrew(other, other')
  /\ pc' = "updated"
  /\ UNCHANGED <<options, probe>>

NextPair ==
  \/ NewPair
  \/ \E delta \in PairDeltas : TickFirst(delta)
  \/ \E delta \in PairDeltas : TickSecond(delta)

SpecPair == InitPair /\ [][NextPair]_vars

-----------------------------------------------------------------------------
(* Two platforms of one configuration with a start state and a palette *)

\* the configurations of the twins: those with the palette
\* [0xff0000, 0x00ff00], the start state
\* { translate: { y: 1 }, scale: { x: 0.5 }, colorIndex: 0 } and a transition
TwinOptions ==
  {o \in Options :
     /\ o.colorPalette # <<>>
     /\ o.states.startState.colorIndex # Undefined
     /\ Len(o.states.transitions) >= 1}

InitTwins ==
  /\ options \in TwinOptions
  /\ platform = NoPlatform
  /\ other = NoPlatform
  /\ heap = Objects(options)
  /\ calls = NoCalls
  /\ pc = "start"
  /\ thrown = FALSE
  /\ probe = NoProbe

SpecTwins == InitTwins /\ [][NextPair]_vars

-----------------------------------------------------------------------------
(* Vocabulary of the properties *)

Constructed == pc # "start"

NumTransitions == Len(platform.transitions)

\* the definitions the platform was constructed from
TransitionSpecs == options.states.transitions

TransformTypes == {"translate", "scale", "rotate"}
Axes == {"x", "y", "z"}

\* the translate, scale and rotate of a state
PoseOf(state) ==
  [translate |-> state.translate, scale |-> state.scale, rotate |-> state.rotate]

\* the pose the platform reports is `pose`: the mesh is as applyState left it
\* for that pose, the translation added to the base position
Reports(self, pose) ==
  /\ self.mesh.position = Vec(DAdd(self.basePosition.x, pose.translate.x),
                              DAdd(self.basePosition.y, pose.translate.y),
                              DAdd(self.basePosition.z, pose.translate.z))
  /\ self.mesh.scale = pose.scale
  /\ self.mesh.rotation = pose.rotate

\* the reported value of one axis of one transform type is v
ReportsAxis(self, type, axis, v) ==
  IF type = "translate" THEN self.mesh.position[axis] = DAdd(self.basePosition[axis], v)
  ELSE IF type = "scale" THEN self.mesh.scale[axis] = v
  ELSE self.mesh.rotation[axis] = v

\* update(delta) on self brings the progress of the current transition to >= 1
Completes(self, delta) ==
  /\ Len(self.transitions) > 0
  /\ self.currentTransitionIndex < Len(self.transitions)
  /\ DLe(DOne, DAdd(self.transitionProgress,
                    DDiv(delta, self.transitions[self.currentTransitionIndex + 1].duration)))

\* the step is a call of update: every step after construction is one
UpdateStep == pc # "start" /\ pc' = "updated"

\* the delta of the update call of the step: update adds it to elapsedTime
StepDelta ==
  CHOOSE delta \in Deltas : DAdd(platform.elapsedTime, delta) = platform'.elapsedTime

\* the step is an update call that brings the progress to >= 1
CompletingStep == UpdateStep /\ Completes(platform, StepDelta)

AllDurationsPositive ==
  \A i \in 1..NumTransitions : DLess(DZero, platform.transitions[i].duration)

\* the transition the platform is in
CurrentTransition == platform.transitions[platform.currentTransitionIndex + 1]

-----------------------------------------------------------------------------
(* C1 *)

\* C1: a platform constructed with no transitions is inert: whatever update
\* calls were made, index, progress, elapsedTime and currentState have their
\* values of construction and the reported pose is the resolved start state.
C1_InertWithoutTransitions ==
  (Constructed /\ Len(TransitionSpecs) = 0) =>
     /\ platform.currentTransitionIndex = 0
     /\ platform.transitionProgress = DZero
     /\ platform.elapsedTime = DZero
     /\ platform.currentState = CopyState(platform.startState)
     /\ platform.startState = StartStateOf(options.states.startState)
     /\ Reports(platform, PoseOf(platform.startState))
     /\ ~thrown

\* update has been called on a platform without transitions
C1_Witness == pc = "updated" /\ Len(TransitionSpecs) = 0

-----------------------------------------------------------------------------
(* C2 *)

\* C2: an update call that brings the progress to >= 1 leaves the progress at
\* exactly 0 and moves the index by exactly one transition (cyclically),
\* whatever delta is.
C2_CompletionResetsProgress ==
  [][CompletingStep =>
       /\ platform'.transitionProgress = DZero
       /\ platform'.currentTransitionIndex =
             (platform.currentTransitionIndex + 1) % NumTransitions]_vars

\* two transitions of 1 s each; the single call update(2) overshot the first by
\* 1 s and the platform is at the start of the second
C2_Witness ==
  /\ pc = "updated"
  /\ NumTransitions = 2
  /\ platform.transitions[1].duration = DOne
  /\ platform.transitions[2].duration = DOne
  /\ platform.elapsedTime = DTwo
  /\ platform.currentTransitionIndex = 1
  /\ platform.transitionProgress = DZero

-----------------------------------------------------------------------------
(* C3 *)

\* C3: the update call that completes the last transition wraps the index to
\* 0, sets currentState to the start state on every axis, and the pose
\* reported after the call is the start state.
C3_WrapRestoresStartState ==
  [][(CompletingStep /\ platform.currentTransitionIndex = NumTransitions - 1) =>
       /\ platform'.currentTransitionIndex = 0
       /\ platform'.currentState = CopyState(platform.startState)
       /\ Reports(platform', PoseOf(platform.startState))]_vars

\* a platform that wrapped: back at index 0 with progress 0 after time has
\* passed, the last target differing from the start state
C3_Witness ==
  /\ pc = "updated"
  /\ NumTransitions = 2
  /\ AllDurationsPositive
  /\ DLess(DZero, platform.elapsedTime)
  /\ platform.currentTransitionIndex = 0
  /\ platform.transitionProgress = DZero
  /\ PoseOf(platform.transitions[2].targetState) # PoseOf(platform.startState)
  /\ Reports(platform, PoseOf(platform.startState))
  /\ ~Reports(platform, PoseOf(platform.transitions[2].targetState))

-----------------------------------------------------------------------------
(* C4 *)

\* C4: the update call that completes transition i < N-1 sets currentState to
\* the target of transition i (axes and colorIndex), moves the index to i+1,
\* and the pose reported after the call is that target.
C4_CompletionAdoptsTarget ==
  [][(CompletingStep /\ platform.currentTransitionIndex < NumTransitions - 1) =>
       /\ platform'.currentTransitionIndex = platform.currentTransitionIndex + 1
       /\ platform'.currentState = CurrentTransition.targetState
       /\ Reports(platform', PoseOf(CurrentTransition.targetState))]_vars

\* a platform at the start of its second transition, standing at the target of
\* the first, which is not the start state
C4_Witness ==
  /\ pc = "updated"
  /\ NumTransitions = 2
  /\ platform.currentTransitionIndex = 1
  /\ platform.transitionProgress = DZero
  /\ PoseOf(platform.transitions[1].targetState) # PoseOf(platform.startState)
  /\ platform.currentState = platform.transitions[1].targetState
  /\ Reports(platform, PoseOf(platform.transitions[1].targetState))
  /\ ~Reports(platform, PoseOf(platform.startState))

-----------------------------------------------------------------------------
(* C5 *)

\* C5: each transition's target translate, scale and rotate are the axes the
\* transition specifies laid over the target of the previous transition (over
\* the start state for the first), so an unspecified axis keeps the value it
\* had at the end of the previous transition.
C5_TargetsMergeOntoPrevious ==
  Constructed =>
    \A i \in 1..NumTransitions :
      LET prev == IF i = 1 THEN platform.startState
                  ELSE platform.transitions[i - 1].targetState
          target == platform.transitions[i].targetState
          given == TransitionSpecs[i].transforms
      IN  /\ target.translate = Spread(prev.translate, given.translate)
          /\ target.scale = Spread(prev.scale, given.scale)
          /\ target.rotate = Spread(prev.rotate, given.rotate)

-----------------------------------------------------------------------------
(* C6 *)

\* C6: no platform is constructed from a transition whose beats are <= 0, and
\* no transition of a constructed platform has a duration <= 0.
C6_NonPositiveBeatsRejected ==
  Constructed =>
    /\ \A i \in 1..Len(TransitionSpecs) :
         ~(TransitionSpecs[i].beats.t = "number" /\ DLe(TransitionSpecs[i].beats.v, DZero))
    /\ AllDurationsPositive

-----------------------------------------------------------------------------
(* C7 *)

\* C7: with N >= 1 transitions the index is in 0..N-1 in every state, and no
\* update call read a transition that does not exist.
C7_IndexInRange ==
  (Constructed /\ NumTransitions >= 1) =>
     /\ platform.currentTransitionIndex \in 0..(NumTransitions - 1)
     /\ ~thrown

\* the index came back to 0 from the last of two transitions
C7_Witness ==
  /\ pc = "updated"
  /\ NumTransitions = 2
  /\ AllDurationsPositive
  /\ platform.currentTransitionIndex = 0
  /\ platform.transitionProgress = DZero
  /\ DLe(DAdd(platform.transitions[1].duration, platform.transitions[2].duration),
         platform.elapsedTime)

-----------------------------------------------------------------------------
(* C8 *)

\* C8: after every update call with delta >= 0, 0 <= progress < 1.
C8_ProgressInUnitInterval ==
  Constructed =>
     /\ DLe(DZero, platform.transitionProgress)
     /\ DLess(platform.transitionProgress, DOne)

-----------------------------------------------------------------------------
(* C9 *)

\* C9: an update call that completes a transition sets the color to the
\* palette entry of the colorIndex of the target of the transition that is
\* current after the call, when that index is not null and inside the palette;
\* otherwise it leaves the color as it was; it does not throw.
C9_ColorAppliedAtCompletion ==
  [][CompletingStep =>
       LET next == platform.transitions[platform'.currentTransitionIndex + 1]
           colorIndex == next.targetState.colorIndex
           palette == platform.colorPalette
       IN  /\ IF colorIndex # Null /\ colorIndex.v >= 0 /\ colorIndex.v < Len(palette)
              THEN platform'.mesh.color = HexToRGB(palette[colorIndex.v + 1])
              ELSE platform'.mesh.color = platform.mesh.color
           /\ ~thrown']_vars

\* a platform built without a start color that took the color 0x00ff00 of
\* palette index 1 when it entered the transition it is at the start of
C9_Witness ==
  /\ pc = "updated"
  /\ NumTransitions >= 1
  /\ AllDurationsPositive
  /\ platform.startState.colorIndex = Null
  /\ DLess(DZero, platform.elapsedTime)
  /\ platform.transitionProgress = DZero
  /\ CurrentTransition.targetState.colorIndex = Num(1)
  /\ Len(platform.colorPalette) = 2
  /\ platform.mesh.color = HexToRGB(platform.colorPalette[2])
  /\ platform.mesh.color # HexToRGB(platform.color)

-----------------------------------------------------------------------------
(* C10 *)

\* the transitions 1..i that give a colorIndex
Coloring(i) == {j \in 1..i : TransitionSpecs[j].transforms.colorIndex # Undefined}

Latest(S) == CHOOSE j \in S : \A k \in S : k <= j

\* C10: the colorIndex of the target of transition i is the one given by the
\* latest transition up to i that gives one, or the colorIndex of the start
\* state (null by default) when none does.
C10_ColorIndexCarriedForward ==
  Constructed =>
    \A i \in 1..NumTransitions :
      platform.transitions[i].targetState.colorIndex =
        IF Coloring(i) = {}
        THEN IF options.states.startState.colorIndex = Undefined THEN Null
             ELSE options.states.startState.colorIndex
        ELSE TransitionSpecs[Latest(Coloring(i))].transforms.colorIndex

\* the second transition gives no colorIndex and has the one the first gave
C10_Witness ==
  /\ Constructed
  /\ NumTransitions = 2
  /\ TransitionSpecs[1].transforms.colorIndex \in {Num(1), Num(5)}
  /\ TransitionSpecs[2].transforms.colorIndex = Undefined
  /\ platform.transitions[2].targetState.colorIndex
        = TransitionSpecs[1].transforms.colorIndex

-----------------------------------------------------------------------------
(* C11 *)

\* C11: after construction startState holds, for every axis, the value the
\* start spec gives, else the default (translate 0, scale 1, rotate 0), and its
\* colorIndex is the given one, else null; right after construction
\* currentState equals startState, the index is 0 and the progress is 0.
C11_StartStateDefaults ==
  Constructed =>
    /\ \A type \in TransformTypes, axis \in Axes :
         LET given == options.states.startState[type][axis]
         IN  platform.startState[type][axis] =
               IF given # Undefined THEN given.v
               ELSE IF type = "scale" THEN DOne ELSE DZero
    /\ platform.startState.colorIndex =
         IF options.states.startState.colorIndex # Undefined
         THEN options.states.startState.colorIndex ELSE Null
    /\ pc = "constructed" =>
         /\ platform.currentState = platform.startState
         /\ platform.currentTransitionIndex = 0
         /\ platform.transitionProgress = DZero

\* a platform was just constructed from a start spec that gives some axes and
\* omits others
C11_Witness ==
  /\ pc = "constructed"
  /\ options.states.startState.translate.y # Undefined
  /\ options.states.startState.scale.x # Undefined
  /\ options.states.startState.scale.y = Undefined
  /\ options.states.startState.colorIndex # Undefined
  /\ platform.startState.scale = Vec(Milli(500), DOne, DOne)

-----------------------------------------------------------------------------
(* C12 *)

\* C12: the duration of every transition is beats * (60 / bpm) seconds, where
\* beats is 1 when the definition omits it and bpm is 120 when the options
\* omit it.
C12_DurationFromBeats ==
  Constructed =>
    \A i \in 1..Len(TransitionSpecs) :
      LET beats == IF TransitionSpecs[i].beats = Undefined THEN DOne
                   ELSE TransitionSpecs[i].beats.v
          bpm == IF options.bpm = Undefined THEN DInt(120) ELSE options.bpm.v
      IN  platform.transitions[i].duration = DMul(beats, DDiv(DInt(60), bpm))

-----------------------------------------------------------------------------
(* C13 *)

\* the eased parameter of a transform type: the curve of that type of the
\* current transition evaluated at the progress
EasedT(type) == Ease(CurrentTransition.easings[type], platform.transitionProgress)

\* from + (to - from) * easedT
Interpolated(from, to, easedT) == DAdd(from, DMul(DSub(to, from), easedT))

\* v lies between a and b
Between(v, a, b) == (DLe(a, v) /\ DLe(v, b)) \/ (DLe(b, v) /\ DLe(v, a))

\* C13: while a platform with transitions animates, every axis of every
\* transform type of the reported pose equals from + (to - from) * easedT,
\* where from is currentState, to is the target of the current transition and
\* easedT is the curve of that type at the progress, not clamped to [0, 1].
C13_PoseInterpolatedUnclamped ==
  (Constructed /\ NumTransitions >= 1 /\ ~thrown) =>
    \A type \in TransformTypes, axis \in Axes :
      ReportsAxis(platform, type, axis,
                  Interpolated(platform.currentState[type][axis],
                               CurrentTransition.targetState[type][axis],
                               EasedT(type)))

\* an update left the platform where the curve of translate overshoots 1 and
\* the reported translate.x lies outside the range between from and to
C13_Witness ==
  /\ pc = "updated"
  /\ NumTransitions >= 1
  /\ ~thrown
  /\ DLess(DOne, EasedT("translate"))
  /\ DLe(EasedT("scale"), DOne)
  /\ ~Between(platform.mesh.position.x,
              DAdd(platform.basePosition.x, platform.currentState.translate.x),
              DAdd(platform.basePosition.x, CurrentTransition.targetState.translate.x))

-----------------------------------------------------------------------------
(* C14 *)

\* the platform has a single transition, of positive duration, from
\* translate.y = 0 to translate.y = 3 with linear easing of translate
SingleLinearRise ==
  /\ NumTransitions = 1
  /\ platform.startState.translate.y = DZero
  /\ platform.basePosition.y = DZero
  /\ platform.transitions[1].targetState.translate.y = DInt(3)
  /\ platform.transitions[1].easings.translate = Easings["linear"]
  /\ DLess(DZero, platform.transitions[1].duration)

\* C14: on a platform with a single linear transition of duration D from
\* translate.y = 0 to translate.y = 3, the first update call with delta = D
\* completes the transition (index 0, progress 0) and reports translate.y = 0,
\* and the first update call with delta = D / 2 reports translate.y = 1.5.
C14_SingleLinearTransition ==
  [][(UpdateStep /\ pc = "constructed" /\ SingleLinearRise) =>
       /\ (StepDelta = platform.transitions[1].duration) =>
            /\ platform'.currentTransitionIndex = 0
            /\ platform'.transitionProgress = DZero
            /\ platform'.currentState = platform.startState
            /\ platform'.mesh.position.y = DZero
       /\ (DMul(DTwo, StepDelta) = platform.transitions[1].duration) =>
            /\ platform'.transitionProgress = Milli(500)
            /\ platform'.mesh.position.y = Milli(1500)]_vars

\* update has been called with the whole duration of the single linear
\* transition and the reported translate.y is back at 0
C14_Witness ==
  /\ pc = "updated"
  /\ SingleLinearRise
  /\ platform.elapsedTime = platform.transitions[1].duration
  /\ platform.transitionProgress = DZero
  /\ platform.mesh.position.y = DZero

\* update has been called with half the duration of the single linear
\* transition and the reported translate.y is 1.5
C14_WitnessHalf ==
  /\ pc = "updated"
  /\ SingleLinearRise
  /\ DMul(DTwo, platform.elapsedTime) = platform.transitions[1].duration
  /\ platform.transitionProgress = Milli(500)
  /\ platform.mesh.position.y = Milli(1500)

-----------------------------------------------------------------------------
(* C15 *)

\* the transitions form a closed loop: the target of the last transition equals
\* the start state on every axis
ClosedLoop ==
  /\ NumTransitions >= 1
  /\ PoseOf(platform.transitions[NumTransitions].targetState) = PoseOf(platform.startState)

\* C15: on a platform whose transitions form a closed loop, the update call
\* that completes the last transition, and with it a full cycle, leaves index
\* 0 and progress 0 and reports exactly the start state.
C15_ClosedLoopReturnsToStart ==
  [][(CompletingStep /\ ClosedLoop
        /\ platform.currentTransitionIndex = NumTransitions - 1) =>
       /\ platform'.currentTransitionIndex = 0
       /\ platform'.transitionProgress = DZero
       /\ Reports(platform', PoseOf(platform.startState))]_vars

\* a closed loop of two transitions that leaves the start state and returns to
\* it has been advanced through a full cycle and reports the start state
C15_Witness ==
  /\ pc = "updated"
  /\ ClosedLoop
  /\ NumTransitions = 2
  /\ PoseOf(platform.transitions[1].targetState) # PoseOf(platform.startState)
  /\ AllDurationsPositive
  /\ DLe(DAdd(platform.transitions[1].duration, platform.transitions[2].duration),
         platform.elapsedTime)
  /\ platform.currentTransitionIndex = 0
  /\ platform.transitionProgress = DZero
  /\ Reports(platform, PoseOf(platform.startState))

-----------------------------------------------------------------------------
(* C16 *)

\* both platforms of the pair have been updated for the same total time
SameElapsedTime ==
  /\ pc # "start"
  /\ other # NoPlatform
  /\ platform.elapsedTime = other.elapsedTime

\* the two platforms report the same pose and are in the same transition
SamePoseAndIndex ==
  /\ platform.mesh.position = other.mesh.position
  /\ platform.mesh.scale = other.mesh.scale
  /\ platform.mesh.rotation = other.mesh.rotation
  /\ platform.currentTransitionIndex = other.currentTransitionIndex

\* C16 as stated: two platforms of one configuration whose update calls sum to
\* the same elapsed time report the same pose and are at the same index,
\* however the time is split into calls.
C16_PoseFunctionOfElapsedTime == SameElapsedTime => SamePoseAndIndex

\* C16 amended: two platforms of one configuration whose update calls sum to
\* the same elapsed time report the same pose and are at the same index
\* provided no call of either went beyond the end of a transition; the time a
\* call goes beyond the end is dropped, so the pose depends on how the time is
\* split into calls. The deltas and durations of the pair are binary
\* fractions, so that no sum of them is rounded.
C16_SamePoseWithoutDroppedTime ==
  (SameElapsedTime /\ ~calls.a.discarded /\ ~calls.b.discarded) => SamePoseAndIndex

\* the same elapsed time, past the first transition, was split into a
\* different number of calls on the two platforms, none of which dropped time
C16_Witness ==
  /\ SameElapsedTime
  /\ ~calls.a.discarded /\ ~calls.b.discarded
  /\ calls.a.count # calls.b.count
  /\ AllDurationsPositive
  /\ DLess(platform.transitions[1].duration, platform.elapsedTime)
  /\ platform.transitionProgress # DZero

-----------------------------------------------------------------------------
(* C17 *)

\* C17: on a constructed platform with at least one transition no update call
\* throws, whatever delta is and whatever state the platform is in.
C17_UpdateNeverThrows ==
  (pc = "updated" /\ NumTransitions >= 1) => ~thrown

-----------------------------------------------------------------------------
(* C18 *)

\* C18: on a platform with N >= 1 transitions every update call with delta > 0
\* brings the cycle forward: it either moves from transition i to transition
\* (i + 1) mod N, or stays in transition i with a strictly greater progress;
\* so under repeated calls every transition is reached again and again, in
\* cyclic order.
C18_EveryUpdateAdvancesCycle ==
  [][(UpdateStep /\ NumTransitions >= 1 /\ DLess(DZero, StepDelta)) =>
       \/ /\ platform'.currentTransitionIndex =
               (platform.currentTransitionIndex + 1) % NumTransitions
          /\ platform'.transitionProgress = DZero
       \/ /\ platform'.currentTransitionIndex = platform.currentTransitionIndex
          /\ DLess(platform.transitionProgress, platform'.transitionProgress)]_vars

-----------------------------------------------------------------------------
(* C19 *)

\* C19: an easing curve, predefined or built from four control points, called
\* with t = 0 returns exactly 0 and called with t = 1 returns exactly 1, in
\* both cases without calling the Newton-Raphson solver getTForX.
C19_EndpointsExact ==
  (probe # NoProbe /\ probe.stage = "evaluated" /\ IsCurve(probe.f)) =>
    /\ (probe.t = DZero) => (probe.value = Num(DZero) /\ ~probe.solved)
    /\ (probe.t = DOne) => (probe.value = Num(DOne) /\ ~probe.solved)

\* a curve built from control points that overshoot was called with t = 1
C19_Witness ==
  /\ probe # NoProbe
  /\ probe.stage = "evaluated"
  /\ probe.easing = EArray(Millis(<<300, -500, 700, 1500>>))
  /\ IsCurve(probe.f)
  /\ probe.t = DOne
  /\ probe.value = Num(DOne)

-----------------------------------------------------------------------------
(* C20 *)

\* the easing the lookup is to return for an input
ExpectedEasing(easing) ==
  IF easing.kind = "string" /\ easing.name \in EasingNames THEN Easings[easing.name]
  ELSE IF easing.kind = "array" /\ Len(easing.arr) = 4
       THEN cubicBezier(easing.arr[1], easing.arr[2], easing.arr[3], easing.arr[4])
  ELSE Easings["easeOutQuart"]

\* C20: getEasing does not throw and returns an easing curve: the predefined
\* curve for a predefined name, the curve built from the four numbers for an
\* array of 4 elements, and easeOutQuart for every other input.
C20_LookupTotal ==
  (probe # NoProbe /\ probe.stage = "found") =>
    /\ ~thrown
    /\ IsCurve(probe.f)
    /\ probe.f = ExpectedEasing(probe.easing)

-----------------------------------------------------------------------------
(* C21 *)

\* the bound of [0, 1] nearest to x, or x itself when it lies in [0, 1]
NearestInUnit(x) == IF DLess(x, DZero) THEN DZero ELSE IF DLess(DOne, x) THEN DOne ELSE x

\* C21: building a curve from four control points does not fail, and the curve
\* built is the one through x1 and x2 each replaced by the nearest bound of
\* [0, 1] when outside it and kept when inside, and through y1 and y2 as given.
C21_ControlPointsClampedInX ==
  (probe # NoProbe /\ probe.stage # "given"
     /\ probe.easing.kind = "array" /\ Len(probe.easing.arr) = 4) =>
    /\ IsCurve(probe.f)
    /\ probe.f = Coefficients(NearestInUnit(probe.easing.arr[1]), probe.easing.arr[2],
                              NearestInUnit(probe.easing.arr[3]), probe.easing.arr[4])
    /\ (probe.stage = "found") => ~thrown

\* a curve was built from control points of which x1 is above 1, x2 is inside
\* [0, 1] and both y1 and y2 are outside [0, 1]
C21_Witness ==
  /\ probe # NoProbe
  /\ probe.stage = "found"
  /\ probe.easing = EArray(Millis(<<1200, -300, 400, 1300>>))
  /\ probe.f.cx = DInt(3)
  /\ probe.f.bx = DSub(DMul(DThree, DSub(Milli(400), DOne)), DInt(3))
  /\ probe.f.cy = DMul(DThree, Milli(-300))
  /\ probe.f.by = DSub(DMul(DThree, DSub(Milli(1300), Milli(-300))), probe.f.cy)

-----------------------------------------------------------------------------
(* C22 *)

\* C22: a transition whose easing is one name or one array of 4 numbers uses
\* the curve of that name or array for translate, scale and rotate; a
\* transition whose easing is a record uses, for each transform type, the curve
\* of the entry of that type whatever the other entries are, and easeOutQuart
\* for a type with no entry.
C22_EasingPerTransformType ==
  Constructed =>
    \A i \in 1..Len(TransitionSpecs), type \in TransformTypes :
      LET easing == TransitionSpecs[i].easing
          used == platform.transitions[i].easings[type]
      IN  /\ (easing.kind \in {"string", "array"}) => used = ExpectedEasing(easing)
          /\ (easing.kind = "record") =>
               used = IF easing[type] # EUndefined THEN ExpectedEasing(easing[type])
                      ELSE Easings["easeOutQuart"]

\* an update of a transition whose record gives no easing for translate, an
\* array for scale and a name for rotate: the three curves differ
C22_Witness ==
  /\ pc = "updated"
  /\ NumTransitions >= 1
  /\ TransitionSpecs[platform.currentTransitionIndex + 1].easing =
       ERecord(EUndefined, EArray(Millis(<<300, -500, 700, 1500>>)), EString("linear"))
  /\ platform.transitionProgress = Milli(500)
  /\ CurrentTransition.easings.translate = Easings["easeOutQuart"]
  /\ CurrentTransition.easings.scale =
       cubicBezier(Milli(300), Milli(-500), Milli(700), Milli(1500))
  /\ CurrentTransition.easings.rotate = Easings["linear"]
  /\ EasedT("translate") # EasedT("rotate")

-----------------------------------------------------------------------------
(* C23 *)

\* C23: a transition that gives no easing uses the easeOut curve for
\* translate, scale and rotate.
C23_OmittedEasingIsEaseOut ==
  Constructed =>
    \A i \in 1..Len(TransitionSpecs), type \in TransformTypes :
      (TransitionSpecs[i].easing = EUndefined) =>
         platform.transitions[i].easings[type] = Easings["easeOut"]

-----------------------------------------------------------------------------
(* C24 *)

\* the fields of a platform that make up its animation
AnimationOf(self) ==
  [currentTransitionIndex |-> self.currentTransitionIndex,
   transitionProgress |-> self.transitionProgress,
   currentState |-> self.currentState,
   startState |-> self.startState,
   transitions |-> self.transitions]

\* the step is an update call on the first, or on the second, platform of a pair
FirstUpdated == pc # "start" /\ calls'.a.count = calls.a.count + 1
SecondUpdated == pc # "start" /\ calls'.b.count = calls.b.count + 1

\* the state update calls with the values of delta in deltas, in order, take
\* self to
RECURSIVE Replay(_, _)
Replay(self, deltas) ==
  IF deltas = <<>> THEN self ELSE Replay(Update(self, Head(deltas)), Tail(deltas))

\* each platform of the pair is in the state a platform constructed alone from
\* the options reaches under the calls made on it
EachOnItsOwn ==
  /\ platform = Replay(Construct(options), calls.a.deltas)
  /\ other = Replay(Construct(options), calls.b.deltas)

\* C24: of two platforms built from the same options object and palette, an
\* update call on one leaves index, progress, currentState, startState and
\* transitions (and every other field) of the other unchanged, and takes the
\* one called to the state update reaches from its own state alone; and under
\* every interleaving of the calls each platform is in the state that a
\* platform constructed alone reaches under its own calls.
C24_PlatformsIndependent ==
  /\ [](Constructed => EachOnItsOwn)
  /\ [][/\ FirstUpdated =>
             /\ AnimationOf(other') = AnimationOf(other)
             /\ other' = other
             /\ platform' = Update(platform, calls'.a.deltas[Len(calls'.a.deltas)])
        /\ SecondUpdated =>
             /\ AnimationOf(platform') = AnimationOf(platform)
             /\ platform' = platform
             /\ other' = Update(other, calls'.b.deltas[Len(calls'.b.deltas)])]_vars

\* both platforms of a pair have been updated, by different calls, and they
\* are in different transitions with different progress and different poses
C24_Witness ==
  /\ pc = "updated"
  /\ other # NoPlatform
  /\ calls.a.count >= 1
  /\ calls.b.count >= 2
  /\ calls.a.deltas # calls.b.deltas
  /\ NumTransitions = 2
  /\ platform.currentTransitionIndex = 1
  /\ other.currentTransitionIndex = 0
  /\ platform.transitionProgress # other.transitionProgress
  /\ platform.mesh # other.mesh
  /\ DLess(platform.elapsedTime, other.elapsedTime)

-----------------------------------------------------------------------------
(* C25 *)

\* the configuration of self is that of built
SameConfiguration(self, built) ==
  /\ self.startState = built.startState
  /\ self.transitions = built.transitions
  /\ self.secondsPerBeat = built.secondsPerBeat

\* C25: in every state after construction, startState and the duration,
\* targetState and easings of every transition are the values the constructor
\* resolved from the options: no update call changes them, whatever it does to
\* currentState.
C25_ConfigurationImmutable ==
  Constructed => SameConfiguration(platform, Construct(options))

\* update calls have moved a platform into its second transition: currentState
\* no longer equals startState and the reported pose lies between two targets
C25_Witness ==
  /\ pc = "updated"
  /\ NumTransitions = 2
  /\ platform.currentTransitionIndex = 1
  /\ platform.currentState # platform.startState
  /\ platform.currentState = CopyState(platform.transitions[1].targetState)
  /\ platform.transitionProgress # DZero
  /\ ~Reports(platform, PoseOf(platform.currentState))
  /\ ~Reports(platform, PoseOf(platform.transitions[2].targetState))

-----------------------------------------------------------------------------
(* C26 *)

\* v is a value other than undefined and null
IsDefined(v) == v # Undefined /\ v # Null

\* every axis of every transform type of the state is defined
FullyResolved(state) ==
  \A type \in TransformTypes, axis \in Axes : IsDefined(state[type][axis])

\* C26: in every state after construction, startState, currentState and the
\* targetState of every transition have a defined x, y and z for translate,
\* scale and rotate, also where the start state or the transition gave only
\* some axes or none.
C26_StatesFullyResolved ==
  Constructed =>
    /\ FullyResolved(platform.startState)
    /\ FullyResolved(platform.currentState)
    /\ \A i \in 1..NumTransitions : FullyResolved(platform.transitions[i].targetState)

\* a platform built from a start state that gives two axes and a transition
\* that gives one has been updated into a state between the two
C26_Witness ==
  /\ pc = "updated"
  /\ NumTransitions >= 1
  /\ options.states.startState.translate.x = Undefined
  /\ options.states.startState.translate.y # Undefined
  /\ TransitionSpecs[1].transforms.translate.y = Undefined
  /\ TransitionSpecs[1].transforms.scale.x # Undefined
  /\ TransitionSpecs[1].transforms.rotate = NoAxes
  /\ platform.transitionProgress # DZero
  /\ FullyResolved(platform.currentState)
  /\ FullyResolved(CurrentTransition.targetState)

-----------------------------------------------------------------------------
(* C27 *)

\* the step is an update call on a platform with transitions that leaves the
\* progress below 1
ContinuingStep ==
  UpdateStep /\ NumTransitions >= 1 /\ ~Completes(platform, StepDelta)

\* C27: an update call that leaves the progress below 1 adds delta / duration
\* to the progress and delta to elapsedTime, and leaves the index,
\* currentState and the color of the mesh unchanged; the color can only change
\* in a call that completes a transition.
C27_ContinuingStepKeepsColor ==
  [][/\ ContinuingStep =>
          /\ platform'.currentTransitionIndex = platform.currentTransitionIndex
          /\ platform'.currentState = platform.currentState
          /\ platform'.mesh.color = platform.mesh.color
          /\ platform'.elapsedTime = DAdd(platform.elapsedTime, StepDelta)
          /\ platform'.transitionProgress =
               DAdd(platform.transitionProgress,
                    DDiv(StepDelta, CurrentTransition.duration))
     /\ (UpdateStep /\ platform'.mesh.color # platform.mesh.color) => CompletingStep]_vars

\* an update left a platform inside a transition whose target color, inside
\* the palette, differs from the color the mesh shows
C27_Witness ==
  /\ pc = "updated"
  /\ NumTransitions >= 1
  /\ platform.transitionProgress # DZero
  /\ DLess(DZero, platform.elapsedTime)
  /\ CurrentTransition.targetState.colorIndex # Null
  /\ getColorFromPalette(platform, CurrentTransition.targetState.colorIndex) # Null
  /\ getColorFromPalette(platform, CurrentTransition.targetState.colorIndex) # platform.mesh.color

-----------------------------------------------------------------------------
(* C28 *)

\* the palette color of a color index, or Null when the index is null or
\* outside the palette
PaletteColor(colorIndex) ==
  IF colorIndex # Null /\ colorIndex.v >= 0 /\ colorIndex.v < Len(platform.colorPalette)
  THEN HexToRGB(platform.colorPalette[colorIndex.v + 1])
  ELSE Null

\* the color of the target of transition 0
FirstTargetColor == PaletteColor(platform.transitions[1].targetState.colorIndex)

RECURSIVE DurationsFrom(_)
DurationsFrom(i) ==
  IF i > NumTransitions THEN DZero
  ELSE DAdd(platform.transitions[i].duration, DurationsFrom(i + 1))

\* the time one cycle through all transitions takes at least
CycleDuration == DurationsFrom(1)

\* the step is an update call that completes the last transition
WrapStep == CompletingStep /\ platform.currentTransitionIndex = NumTransitions - 1

\* C28: the update call that wraps from the last transition to index 0 resets
\* currentState, colorIndex included, to startState, yet the color it applies
\* to the mesh is the palette color of the colorIndex of transition 0's target
\* (the color stays as it was when that index is null or outside the palette),
\* not the start color; and once a cycle has gone by, the color of the mesh
\* while transition 0 is current is that color of transition 0's target.
C28_WrapAppliesFirstTargetColor ==
  /\ [][WrapStep =>
          /\ platform'.currentTransitionIndex = 0
          /\ platform'.currentState.colorIndex = platform.startState.colorIndex
          /\ platform'.mesh.color =
               IF FirstTargetColor # Null THEN FirstTargetColor ELSE platform.mesh.color]_vars
  /\ []((/\ Constructed /\ NumTransitions >= 1 /\ AllDurationsPositive
         /\ platform.currentTransitionIndex = 0
         /\ DLe(CycleDuration, platform.elapsedTime)
         /\ FirstTargetColor # Null)
        => platform.mesh.color = FirstTargetColor)

\* after a wrap the platform is in transition 0 with the start colorIndex in
\* currentState, and the mesh has the color of transition 0's target, which is
\* not the color of the start state
C28_Witness ==
  /\ pc = "updated"
  /\ NumTransitions >= 1
  /\ AllDurationsPositive
  /\ platform.currentTransitionIndex = 0
  /\ DLe(CycleDuration, platform.elapsedTime)
  /\ platform.transitionProgress # DZero
  /\ platform.currentState.colorIndex = platform.startState.colorIndex
  /\ PaletteColor(platform.startState.colorIndex) # Null
  /\ FirstTargetColor # Null
  /\ FirstTargetColor # PaletteColor(platform.startState.colorIndex)
  /\ platform.mesh.color = FirstTargetColor

-----------------------------------------------------------------------------
(* C29 *)

\* the exact product k * a for a mantissa a and a whole number k in 0..2^16
WideTimes(k, a) ==
  LET p0 == (a[2] % HalfLimb) * k
      p1 == (a[2] \div HalfLimb) * k
      p2 == (a[1] % HalfLimb) * k
      p3 == (a[1] \div HalfLimb) * k
  IN  WideCarry(0, p3 \div HalfLimb,
                p2 + (p3 % HalfLimb) * HalfLimb + p1 \div HalfLimb,
                p0 + (p1 % HalfLimb) * HalfLimb)

\* k * a >= b as real numbers, for doubles a > 0 and b > 0 whose exponents
\* differ by at most 40 and a whole number k in 0..2^16
TimesReaches(k, a, b) ==
  IF a.e >= b.e
  THEN ~WideLess(WideShiftLeft(WideTimes(k, a.m), a.e - b.e), <<0, 0, b.m[1], b.m[2]>>)
  ELSE ~WideLess(WideTimes(k, a.m), WideShiftLeft(<<0, 0, b.m[1], b.m[2]>>, b.e - a.e))

\* k is the least whole number with k * delta >= duration: k = ceil(D / d)
IsCeilOfRatio(k, delta, duration) ==
  /\ TimesReaches(k, delta, duration)
  /\ ~TimesReaches(k - 1, delta, duration)

\* C29: under update calls with a constant delta d > 0, a transition of
\* duration D > 0 entered with progress 0 is completed by the call number
\* ceil(D / d) after the entry, no earlier and no later.
C29_CompletesOnCeilCall ==
  (probe # NoProbe /\ probe.completedOn > 0) =>
    IsCeilOfRatio(probe.completedOn, probe.delta, platform.transitions[1].duration)

-----------------------------------------------------------------------------
(* C30 *)

\* what is compared of two platforms: index, progress, the state animated
\* from, the reported pose and the color applied to the mesh
ObservableOf(self) ==
  [currentTransitionIndex |-> self.currentTransitionIndex,
   transitionProgress |-> self.transitionProgress,
   currentState |-> self.currentState,
   pose |-> [translate |-> self.mesh.position, scale |-> self.mesh.scale,
             rotate |-> self.mesh.rotation],
   color |-> self.mesh.color]

\* the fields of a differ from those of b in the pose or in the color
Differs(a, b) == a.pose # b.pose /\ a.color # b.color

\* C30: two platforms constructed from the same options object, once each has
\* been updated with the same sequence of values of delta, have the same
\* index, progress, currentState, reported pose and applied color, however
\* the calls on the one and on the other were interleaved.
C30_TwinsIdentical ==
  (Constructed /\ calls.a.deltas = calls.b.deltas) =>
     ObservableOf(platform) = ObservableOf(other)

\* the twins have been updated with the same two values of delta through the
\* completion of a transition into the middle of the next one, and their pose
\* and color are no longer the initial ones
C30_Witness ==
  /\ pc = "updated"
  /\ other # NoPlatform
  /\ calls.a.deltas = calls.b.deltas
  /\ Len(calls.a.deltas) = 2
  /\ NumTransitions = 2
  /\ platform.currentTransitionIndex = 1
  /\ platform.transitionProgress # DZero
  /\ other.transitionProgress = platform.transitionProgress
  /\ other.mesh.color = platform.mesh.color
  /\ Differs(ObservableOf(other), ObservableOf(Construct(options)))

====
